---- MODULE Spec2Model ----
(***************************************************************************)
(* Model of udplog's in-process event bus (udplog/twisted.py) and of the   *)
(* sink sessions that register with it (udplog/scribe.py,                  *)
(* udplog/rabbitmq.py).                                                    *)
(*                                                                         *)
(* All handlers run on one reactor thread, so every handler is one atomic  *)
(* action.  A Deferred that has not fired, and a DelayedCall that has not  *)
(* run, are state: they fire in later actions.                             *)
(***************************************************************************)
EXTENDS Integers, Sequences, FiniteSets, TLC

\* ------------------------------------------------------------------ bounds

\* Number of put() calls made on the QueueProducer in one run.
MaxPuts == 3

\* Largest queue size (the size argument) a QueueProducer is built with.
MaxSize == 2

\* Number of consumers the tests of the dispatcher register with it.
MaxConsumers == 3

\* Number of events dispatched to the test consumers in one run.
MaxEvents == 2

\* Number of events dispatched to the sink sessions in one run.
MaxSinkEvents == 1

\* Number of sinks the daemon is configured with.
MaxSinks == 3

\* Number of Redis hosts (client factories) of the pool.
MaxFactories == 2

\* Number of pushes made on the pool in one run.
MaxPushes == 2

\* Number of calls of AsyncScribeClient.Log in one run.
MaxLogs == 3

\* Number of replies the Scribe server sends in one run.
MaxReplies == 2

\* Number of datagrams the native ingress receives in one run.
MaxDatagrams == 2

\* Number of consumers that are registered and unregistered again and again.
MaxRegistered == 2

\* Number of connection attempts that fail or connections that are lost
\* before the next connection is made.
MaxRetries == 6

\* Number of connections the reconnecting factory makes in one run.
MaxBuilds == 2

\* The largest syslog priority received.
MaxPriority == 193

\* Number of connections (protocol instances) the client factories build in
\* one run, the Scribe and the RabbitMQ ones counted together.
MaxConn == 3

\* ----------------------------------------------------------------- helpers

Range(s) == {s[i] : i \in 1..Len(s)}

\* The last n elements of s (all of s when it is shorter).
LastN(s, n) == IF Len(s) <= n THEN s ELSE SubSeq(s, Len(s) - n + 1, Len(s))

\* s is strictly increasing (items are numbered in put order).
Increasing(s) == \A i, j \in 1..Len(s) : i < j => s[i] < s[j]

\* ------------------------------------------------------------ QueueProducer
\*
\* A QueueProducer is a record:
\*   maxlen    <<>> for size=None, <<n>> for size=n            (deque maxlen)
\*   paused    self.paused
\*   waiting   TRUE iff self.waiting holds an unfired Deferred
\*   pending   self.pending, oldest first
\*   call      self._call: "none", "active" (a DelayedCall that has not run)
\*             or "cancelled" (a DelayedCall that was cancelled)
\*   timers    the number of DelayedCalls to _processQueue the clock holds
\*   inflight  the items whose callback Deferred has not fired
\*   output    the items the callback was called with, in call order
\*   logged    the number of errors given to log.err
\*   escaped   the number of exceptions that left a public method of the
\*             producer and reached its caller

\* What self.callback(obj) does: return a fired Deferred (defer.succeed), a
\* failed one (defer.fail), one that has not fired yet, or not return a
\* Deferred at all (it raises, or returns None as RabbitMQPublisher.sendEvent
\* does without a channel, and d.addErrback raises AttributeError).
CallbackOutcomes == {"succeed", "fail", "defer", "raise"}

\* QueueProducer.__init__
QueueProducer(maxlen) ==
    [maxlen |-> maxlen, paused |-> TRUE, waiting |-> FALSE, pending |-> <<>>,
     call |-> "none", timers |-> 0, inflight |-> {}, output |-> <<>>,
     logged |-> 0, escaped |-> 0]

\* deque(maxlen=size).append(obj): a full deque discards its left end.
dequeAppendKeepOldest(pending, maxlen, obj) ==
    IF Len(maxlen) = 1 /\ Len(pending) >= maxlen[1]
    THEN pending
    ELSE Append(pending, obj)

dequeAppend(pending, maxlen, obj) ==
    IF Len(maxlen) = 1 /\ Len(pending) >= maxlen[1]
    THEN Append(Tail(pending), obj)
    ELSE Append(pending, obj)

\* reschedule(_): self._call = self._clock.callLater(0, self._processQueue).
\* A DelayedCall self._call still referred to stays with the clock.
reschedule(q) == [q EXCEPT !.call = "active", !.timers = @ + 1]

\* processItem(obj) with the callback behaving as o.  The result's exc field
\* tells whether an exception left processItem.
processItem(q, obj, o) ==
    LET called == [q EXCEPT !.output = Append(@, obj)]
    IN  CASE o = "succeed" -> [q |-> reschedule(called), exc |-> FALSE]
          [] o = "fail" ->
                [q |-> reschedule([called EXCEPT !.logged = @ + 1]),
                 exc |-> FALSE]
          [] o = "defer" ->
                [q |-> [called EXCEPT !.inflight = @ \cup {obj}],
                 exc |-> FALSE]
          [] o = "raise" -> [q |-> called, exc |-> TRUE]

\* QueueProducer._processQueue
processQueueIgnorePause(q, o) ==
    LET q0 == [q EXCEPT !.call = "none"]
    IN  IF q0.pending # <<>>
        THEN processItem([q0 EXCEPT !.pending = Tail(@)], Head(q0.pending), o)
        ELSE IF ~q0.waiting
             THEN [q |-> [q0 EXCEPT !.waiting = TRUE], exc |-> FALSE]
             ELSE [q |-> q0, exc |-> FALSE]

processQueuePopRight(q, o) ==
    LET q0 == [q EXCEPT !.call = "none"]
        n == Len(q0.pending)
    IN  IF q0.pending # <<>> /\ ~q0.paused
        THEN processItem([q0 EXCEPT !.pending = SubSeq(@, 1, n - 1)],
                         q0.pending[n], o)
        ELSE IF ~q0.waiting
             THEN [q |-> [q0 EXCEPT !.waiting = TRUE], exc |-> FALSE]
             ELSE [q |-> q0, exc |-> FALSE]

\* _processQueue that leaves the item it hands over in the queue.
processQueueKeepItem(q, o) ==
    LET q0 == [q EXCEPT !.call = "none"]
    IN  IF q0.pending # <<>> /\ ~q0.paused
        THEN processItem(q0, Head(q0.pending), o)
        ELSE IF ~q0.waiting
             THEN [q |-> [q0 EXCEPT !.waiting = TRUE], exc |-> FALSE]
             ELSE [q |-> q0, exc |-> FALSE]

processQueue(q, o) ==
    LET q0 == [q EXCEPT !.call = "none"]
    IN  IF q0.pending # <<>> /\ ~q0.paused
        THEN processItem([q0 EXCEPT !.pending = Tail(@)], Head(q0.pending), o)
        ELSE IF ~q0.waiting
             THEN [q |-> [q0 EXCEPT !.waiting = TRUE], exc |-> FALSE]
             ELSE [q |-> q0, exc |-> FALSE]

\* QueueProducer.pauseProducing
pauseProducing(q) == [q EXCEPT !.paused = TRUE]

\* QueueProducer.resumeProducing: an exception of _processQueue reaches the
\* caller.
resumeProducing(q, o) ==
    LET r == processQueue([q EXCEPT !.paused = FALSE], o)
    IN  [r.q EXCEPT !.escaped = IF r.exc THEN @ + 1 ELSE @]

\* QueueProducer.stopProducing.  Cancelling self.waiting runs its canceller
\* (self.waiting = None) and the CancelledError is trapped without a log
\* entry.  Cancelling a DelayedCall takes it from the clock; self._call keeps
\* referring to it, and cancelling it again raises AlreadyCancelled.
stopProducing(q) ==
    LET q0 == [q EXCEPT !.waiting = FALSE]
    IN  CASE q0.call = "none" -> q0
          [] q0.call = "active" ->
                [q0 EXCEPT !.call = "cancelled", !.timers = @ - 1]
          [] q0.call = "cancelled" -> [q0 EXCEPT !.escaped = @ + 1]

\* QueueProducer.put.  With a waiter armed and the producer not paused the
\* item goes through the waiting Deferred to processItem; an exception there
\* ends in the Deferred's log.err errback.
putAlwaysQueue(q, obj, o) ==
    [q EXCEPT !.pending = dequeAppend(@, q.maxlen, obj)]

put(q, obj, o) ==
    IF q.waiting /\ ~q.paused
    THEN LET r == processItem([q EXCEPT !.waiting = FALSE], obj, o)
         IN  [r.q EXCEPT !.logged = IF r.exc THEN @ + 1 ELSE @]
    ELSE [q EXCEPT !.pending = dequeAppend(@, q.maxlen, obj)]

\* A DelayedCall runs: the clock calls _processQueue.  An exception of it is
\* caught and logged by the reactor.
delayedCall(q, o) ==
    LET r == processQueue([q EXCEPT !.timers = @ - 1], o)
    IN  [r.q EXCEPT !.logged = IF r.exc THEN @ + 1 ELSE @]

\* The Deferred the callback returned for obj fires, with a result (ok) or
\* with a failure: d.addErrback(log.err), then d.addCallback(reschedule).
callbackFired(q, obj, ok) ==
    reschedule([q EXCEPT !.inflight = @ \ {obj},
                         !.logged = IF ok THEN @ ELSE @ + 1])

\* ---------------------------------------------- DispatcherFromUDPLogProtocol
\*
\* A consumer is <<kind, n>>: <<"test", n>> a callable registered by hand,
\* <<"scribe", n>> the sendEvent of the n-th ScribeProtocol the factory
\* built, <<"rabbit", n>> the put of the QueueProducer of the n-th
\* RabbitMQPublisher.

TestConsumers == {<<"test", n>> : n \in 1..MaxConsumers}
ScribeConsumers == {<<"scribe", n>> : n \in 1..MaxConn}
RabbitConsumers == {<<"rabbit", n>> : n \in 1..MaxConn}
Consumers == TestConsumers \cup ScribeConsumers \cup RabbitConsumers


\* The orders in which a for loop may visit the set S.
Orders(S) ==
    {f \in [1..Cardinality(S) -> S] :
        \A i, j \in 1..Cardinality(S) : i # j => f[i] # f[j]}

\* DispatcherFromUDPLogProtocol.register
register(cs, c) == cs \cup {c}

\* unregister that leaves the consumer in the set.
unregisterKeep(cs, c) == cs

\* unregister that removes every consumer.
unregisterClear(cs, c) == {}

\* DispatcherFromUDPLogProtocol.unregister: remove, a KeyError is passed over.
unregister(cs, c) == cs \ {c}

\* RabbitMQPublisher.sendEvent, as the callback of the producer of the
\* publisher p: without a channel it logs and returns None, which is no
\* Deferred; with one it returns what basic_publish returns (o), or raises
\* (o = "raise": an event without 'timestamp').
rabbitSendEvent(p, o) == IF ~p.chan THEN "raise" ELSE o

\* ScribeProtocol.sendEvent: the entry made of the event is given to
\* self.client.Log (sent).  The contents of events are not part of this
\* state: every event is taken to carry a category, to pass the log level
\* filter and to encode.
scribeSendEvent(p, event) == [p EXCEPT !.sent = Append(@, event)]

\* The state a dispatch works on: what each test consumer was called with
\* (received), the errors the dispatcher logged (dlogged), whether an
\* exception left eventReceived (draised), and the sink sessions the
\* registered consumers belong to.
\*
\* consumer(event) for the consumer c; raising is the set of test consumers
\* that raise.  exc tells whether the call raised.
consumerCalled(st, c, event, raising, o) ==
    CASE c[1] = "test" ->
            [st |-> [st EXCEPT !.received[c] = Append(@, event)],
             exc |-> c \in raising]
      [] c[1] = "scribe" ->
            [st |-> [st EXCEPT !.scribe[c[2]] = scribeSendEvent(@, event)],
             exc |-> FALSE]
      [] c[1] = "rabbit" ->
            LET p == st.rabbit[c[2]]
                q2 == put(p.producer[1], event, rabbitSendEvent(p, o))
            IN  [st |-> [st EXCEPT !.rabbit[c[2]].producer = <<q2>>],
                 exc |-> FALSE]

\* The body of the loop of eventReceived: try: consumer(event); except:
\* log.err().
callConsumerNoExcept(st, c, event, raising, o) ==
    LET r == consumerCalled(st, c, event, raising, o)
    IN  IF r.exc THEN [st EXCEPT !.draised = TRUE] ELSE r.st

callConsumer(st, c, event, raising, o) ==
    LET r == consumerCalled(st, c, event, raising, o)
    IN  IF r.exc THEN [r.st EXCEPT !.dlogged = @ + 1] ELSE r.st

\* DispatcherFromUDPLogProtocol.eventReceived, visiting the consumers in the
\* given order; an exception that leaves the loop body ends the loop.
RECURSIVE eventReceived(_, _, _, _, _)
eventReceived(st, order, event, raising, o) ==
    IF order = <<>> \/ st.draised
    THEN st
    ELSE eventReceived(callConsumer(st, Head(order), event, raising, o),
                       Tail(order), event, raising, o)

\* ------------------------------------------------------------ sink sessions
\*
\* A client factory builds a new protocol for every connection
\* (UDPLogClientFactory.buildProtocol), so a session is a sequence of
\* protocol instances, of which only the last can be connected.
\*
\* ScribeProtocol instance:
\*   connected  connectionMade ran and connectionLost did not
\*   sent       the events given to self.client.Log
\* RabbitMQPublisher instance:
\*   conn      "handshake" (connected, gotConnection waits for the broker),
\*             "failed" (gotConnection failed, loseConnection was called),
\*             "up" (gotConnection has finished), "lost" (connectionLost ran)
\*   chan      self.chan is set
\*   producer  <<>> while the instance has no producer attribute, else <<q>>
\*   logged    the errors this instance (or the reactor, for it) logged
\*   raisedLost  connectionLost raised
\*   upcalls   the calls of AMQClient.connectionLost made by connectionLost

\* ScribeProtocol.__init__ and connectionMade
ScribeProtocol == [connected |-> TRUE, sent |-> <<>>]

\* RabbitMQPublisher.__init__
RabbitMQPublisher ==
    [conn |-> "handshake", chan |-> FALSE, producer |-> <<>>, logged |-> 0,
     raisedLost |-> FALSE, upcalls |-> 0]

\* gotConnection after self.chan = yield self.channel(1)
channelOpened(p) == [p EXCEPT !.chan = TRUE]

\* The rest of gotConnection: the producer is built, registered with the
\* transport and resumed (its queue is empty: the waiter is armed).
gotConnection(p, size) ==
    [p EXCEPT !.producer = <<resumeProducing(QueueProducer(size), "succeed")>>,
              !.conn = "up"]

\* connectionMade.eb: log.err(failure); self.transport.loseConnection()
handshakeFailed(p) == [p EXCEPT !.conn = "failed", !.logged = @ + 1]

\* connectionLost that does not call the parent class.
connectionLostNoUpcall(p) ==
    IF p.producer = <<>>
    THEN [p EXCEPT !.conn = "lost", !.chan = FALSE, !.raisedLost = TRUE]
    ELSE [p EXCEPT !.conn = "lost", !.chan = FALSE, !.logged = @ + 1,
                   !.producer = <<stopProducing(p.producer[1])>>]

\* The connection is lost.  The transport first stops the producer that was
\* registered with it; then RabbitMQPublisher.connectionLost: self.chan =
\* None, unregister self.producer.put (AttributeError without a producer),
\* log.err(reason), AMQClient.connectionLost(self, reason).
connectionLost(p) ==
    IF p.producer = <<>>
    THEN [p EXCEPT !.conn = "lost", !.chan = FALSE, !.raisedLost = TRUE]
    ELSE [p EXCEPT !.conn = "lost", !.chan = FALSE, !.logged = @ + 1,
                   !.producer = <<stopProducing(p.producer[1])>>,
                   !.upcalls = @ + 1]

\* ----------------------------------------------------- events with fields
\*
\* An event is a dict: here a function from the names of its fields to their
\* values.  A value is [t |-> its Python type, v |-> its text]; "object" is a
\* value simplejson cannot encode (TypeError), "bytes" a str that is not
\* UTF-8 (UnicodeDecodeError, a ValueError).

V(t, v) == [t |-> t, v |-> v]

\* {}
NoFields == [f \in {} |-> V("str", "")]

Has(e, f) == f \in DOMAIN e

\* e[f] = v
SetItem(e, f, v) == [g \in DOMAIN e \cup {f} |-> IF g = f THEN v ELSE e[g]]

\* del e[f]
DelItem(e, f) == [g \in DOMAIN e \ {f} |-> e[g]]

\* repr(x): the text of x, a str whatever x is (a str gets quotes).
repr(x) == V("str", IF x.t \in {"str", "bytes"} THEN "'" \o x.v \o "'" ELSE x.v)

\* bool(x)
bool(x) ==
    V("bool", IF x.v \in {"0", "False", ""} THEN "False" ELSE "True")

\* The JSON value simplejson writes for x.
jsonValue(x) ==
    CASE x.t = "int" -> V("number", x.v)
      [] x.t = "str" -> V("string", x.v)
      [] x.t = "bool" -> V(IF x.v = "True" THEN "true" ELSE "false", "")
      [] OTHER -> V("null", "")

\* simplejson.dumps(e): the JSON object written, or the exception raised.
dumps(e) ==
    IF \E f \in DOMAIN e : e[f].t = "object"
    THEN [exc |-> "TypeError", body |-> <<>>]
    ELSE IF \E f \in DOMAIN e : e[f].t = "bytes"
    THEN [exc |-> "ValueError", body |-> <<>>]
    ELSE [exc |-> "none", body |-> [f \in DOMAIN e |-> jsonValue(e[f])]]

\* logging.INFO, the default minLogLevel of ScribeProtocol
minLogLevel == 20

\* logging.getLevelName(name) for a str: the number of a level the logging
\* module knows, and the str "Level " + name for any other name.
getLevelName(name) ==
    CASE name = "DEBUG" -> V("int", "10")
      [] name = "INFO" -> V("int", "20")
      [] name \in {"WARNING", "WARN"} -> V("int", "30")
      [] name = "ERROR" -> V("int", "40")
      [] name = "CRITICAL" -> V("int", "50")
      [] OTHER -> V("str", "Level " \o name)

\* The numbers of the levels of the logging module, by their text.
LevelNumber(text) ==
    CASE text = "10" -> 10
      [] text = "20" -> 20
      [] text = "30" -> 30
      [] text = "40" -> 40
      [] text = "50" -> 50

\* logLevel < self.minLogLevel as Python 2 evaluates it for the value x that
\* getLevelName gave and an int: ints by their value, and a str is never
\* less than an int.
lessThan(x, min) == x.t = "int" /\ LevelNumber(x.v) < min

\* What calling a sink's consumer with the event object e does:
\*   event   the fields of the object e afterwards
\*   sent    what was given to the backend, <<[topic, body]>> or <<>>
\*   logged  the errors the sink logged
\*   exc     an exception left the consumer
Result(e, sent, logged, exc) ==
    [event |-> e, sent |-> sent, logged |-> logged, exc |-> exc]

\* ScribeProtocol.sendEvent of a protocol built with the given minLogLevel
sendEventScribeAt(e, min) ==
    LET level == IF Has(e, "logLevel") THEN e["logLevel"].v ELSE "INFO"
        copy == DelItem(e, "category")
        message == dumps(copy)
    IN  IF lessThan(getLevelName(level), min)
        THEN Result(e, <<>>, 0, FALSE)
        ELSE IF ~Has(e, "category")
        THEN Result(e, <<>>, 0, TRUE)
        ELSE IF message.exc = "ValueError"
        THEN Result(e, <<>>, 1, FALSE)
        ELSE IF message.exc = "TypeError"
        THEN Result(e, <<>>, 0, TRUE)
        ELSE Result(e, <<[topic |-> e["category"].v, body |-> message.body]>>,
                    0, FALSE)

\* ScribeProtocol.sendEvent of the protocol tap.makeService sets up, which
\* has the default minLogLevel.
sendEventScribe(e) == sendEventScribeAt(e, minLogLevel)

\* RabbitMQPublisher.sendEvent that changes the event it was given.
sendEventRabbitMQInPlace(e) ==
    LET copy1 == SetItem(e, "timestamp", repr(e["timestamp"]))
        copy2 == IF Has(copy1, "isError")
                 THEN SetItem(copy1, "isError", bool(copy1["isError"]))
                 ELSE copy1
        body == dumps(copy2)
    IN  IF ~Has(e, "timestamp")
        THEN Result(e, <<>>, 0, TRUE)
        ELSE IF body.exc # "none"
        THEN Result(copy2, <<>>, 0, TRUE)
        ELSE Result(copy2, <<[topic |-> "logs", body |-> body.body]>>,
                    0, FALSE)

\* RabbitMQPublisher.sendEvent, with a channel.
sendEventRabbitMQ(e) ==
    LET copy1 == SetItem(e, "timestamp", repr(e["timestamp"]))
        copy2 == IF Has(copy1, "isError")
                 THEN SetItem(copy1, "isError", bool(copy1["isError"]))
                 ELSE copy1
        body == dumps(copy2)
    IN  IF ~Has(e, "timestamp")
        THEN Result(e, <<>>, 0, TRUE)
        ELSE IF body.exc # "none"
        THEN Result(e, <<>>, 0, TRUE)
        ELSE Result(e, <<[topic |-> "logs", body |-> body.body]>>, 0, FALSE)

\* The consumer of the RabbitMQ sink is the put of an idle QueueProducer: it
\* hands the event to sendEvent through the waiter, whose errback logs what
\* sendEvent raises.
putRabbitMQ(e) ==
    LET r == sendEventRabbitMQ(e)
    IN  IF r.exc THEN Result(r.event, r.sent, r.logged + 1, FALSE) ELSE r

\* RedisPublisher.sendEvent that pushes what it could not encode.
sendEventRedisPushAnyway(e) ==
    LET value == dumps(e)
    IN  IF value.exc # "none"
        THEN Result(e, <<[topic |-> "key", body |-> value.body]>>, 1, FALSE)
        ELSE Result(e, <<[topic |-> "key", body |-> value.body]>>, 0, FALSE)

\* RedisPublisher.sendEvent, with a client whose lpush succeeds.
sendEventRedis(e) ==
    LET value == dumps(e)
    IN  IF value.exc # "none"
        THEN Result(e, <<>>, 1, FALSE)
        ELSE Result(e, <<[topic |-> "key", body |-> value.body]>>, 0, FALSE)

\* KafkaPublisher._sendEvent
sendEventKafka(e) ==
    LET encoded == dumps(e)
    IN  IF encoded.exc # "none"
        THEN Result(e, <<>>, 0, TRUE)
        ELSE Result(e, <<[topic |-> "udplog", body |-> encoded.body]>>,
                    0, FALSE)

\* DataDogPublisher.sendEvent.  It works on the event it was given.  The tags
\* are put together with key+":"+value, a TypeError when a value is no str:
\* the event then keeps the tags written so far.  The text is
\* event.get('message', simplejson.dumps(event)), which encodes the event
\* whether it has a message or not.
sendEventDataDog(e) ==
    LET strs == \A f \in DOMAIN e : e[f].t = "str"
        e1 == IF Has(e, "tags") THEN e
              ELSE SetItem(e, "tags",
                           V("str", IF strs THEN "all" ELSE "some"))
        e2 == IF Has(e1, "title") THEN e1
              ELSE SetItem(e1, "title",
                           IF Has(e1, "category") THEN e1["category"]
                           ELSE V("str", "default"))
        e3 == IF Has(e2, "priority") THEN e2
              ELSE SetItem(e2, "priority", V("str", "normal"))
        textRaises == ~Has(e3, "text") /\ dumps(e3).exc # "none"
        e4 == IF Has(e3, "text") \/ textRaises THEN e3
              ELSE SetItem(e3, "text",
                           IF Has(e3, "message") THEN e3["message"]
                           ELSE V("str", "json"))
        body == dumps(e4)
    IN  IF ~Has(e, "tags") /\ ~strs
        THEN Result(e1, <<>>, 0, TRUE)
        ELSE IF textRaises
        THEN Result(e3, <<>>, 0, TRUE)
        ELSE IF body.exc # "none"
        THEN Result(e4, <<>>, 1, FALSE)
        ELSE Result(e4, <<[topic |-> "events", body |-> body.body]>>,
                    0, FALSE)

Sinks == {"scribe", "rabbitmq", "redis", "kafka", "datadog"}

\* consumer(event) for the consumer of the sink s
sinkCalled(s, e) ==
    CASE s = "scribe" -> sendEventScribe(e)
      [] s = "rabbitmq" -> putRabbitMQ(e)
      [] s = "redis" -> sendEventRedis(e)
      [] s = "kafka" -> sendEventKafka(e)
      [] s = "datadog" -> sendEventDataDog(e)

\* DispatcherFromUDPLogProtocol.eventReceived for the event object whose
\* fields are st.event, visiting the consumers of the sinks in the given
\* order.  For every sink visited: the fields the event had when its
\* consumer was called (seen) and when it returned (after), what it gave to
\* its backend (sent), the errors it or the dispatcher logged for it (logged).
sinkVisited(st, s, r) ==
    [event |-> r.event,
     seen |-> [st.seen EXCEPT ![s] = <<st.event>>],
     after |-> [st.after EXCEPT ![s] = <<r.event>>],
     sent |-> [st.sent EXCEPT ![s] = r.sent],
     logged |-> [st.logged EXCEPT ![s] = r.logged + IF r.exc THEN 1 ELSE 0]]

RECURSIVE sinksEventReceived(_, _)
sinksEventReceived(st, order) ==
    IF order = <<>>
    THEN st
    ELSE sinksEventReceived(
             sinkVisited(st, Head(order), sinkCalled(Head(order), st.event)),
             Tail(order))

\* --------------------------------------------------------- the Redis pool
\*
\* RedisPushMultiClient over the client factories F, one per Redis host.
\*   factories  self.factories, the live set
\*   client     for each factory: "none" (factory.client is None), "up" (a
\*              connected client), "down" (a client whose connection is gone)
\*   callbacks  for each factory, the _reconnected callbacks waiting on
\*              factory.deferred
\*   pushes     for each factory, the values its endpoint recorded

\* RedisPushMultiClient.__init__
RedisPushMultiClient(F) ==
    [factories |-> F,
     client |-> [f \in F |-> "none"],
     callbacks |-> [f \in F |-> 0],
     pushes |-> [f \in F |-> 0]]

\* RedisPushMultiClient._reconnected
reconnected(p, f) == [p EXCEPT !.factories = @ \cup {f}]

\* RedisPushMultiClient._disconnected: the factory leaves the live set and a
\* callback that calls _reconnected is added to factory.deferred.
disconnected(p, f) ==
    [p EXCEPT !.factories = @ \ {f}, !.callbacks[f] = @ + 1]

\* A connection of the factory f was made that runs no callback.
factoryConnectedNoCallback(p, f) ==
    [p EXCEPT !.client[f] = "up", !.callbacks[f] = 0]

\* A connection of the factory f was made: factory.client is the new,
\* connected client and factory.deferred fires, which runs the callbacks
\* added to it; the factory then has a new deferred.
factoryConnected(p, f) ==
    LET p1 == [p EXCEPT !.client[f] = "up", !.callbacks[f] = 0]
    IN  IF p.callbacks[f] > 0 THEN reconnected(p1, f) ELSE p1

\* The connection of the factory f is gone: its client answers every push
\* with RuntimeError("Not connected").
factoryDisconnected(p, f) == [p EXCEPT !.client[f] = "down"]

\* What factory.client.lpush does on a connected client:
\*   "ok"     the endpoint records the value, the Deferred fires
\*   "error"  the Deferred fails, not with RuntimeError("Not connected")
\*   "raise"  lpush raises, not an AttributeError
PushOutcomes == {"ok", "error", "raise"}

\* What a call of RedisPushMultiClient.lpush comes to: the pool afterwards,
\* the result of the Deferred returned ("raised" when the call raised), and
\* the factories tried, in order.
Pushed(p, result, tried) == [p |-> p, result |-> result, tried |-> tried]

\* RedisPushMultiClient.lpush, all the ways it can go: the set of what it may
\* come to, one for every choice random.sample makes.  A factory without a
\* client (AttributeError) or whose client is not connected (eb) is taken
\* out and lpush is called again.
RECURSIVE lpush(_, _, _)

\* lpush that pushes to a client that is not connected.
attemptDeliverDown(p, f, o, tried) ==
    IF p.client[f] # "none"
    THEN CASE o = "ok" ->
                {Pushed([p EXCEPT !.pushes[f] = @ + 1], "ok", tried)}
           [] o = "error" -> {Pushed(p, "RuntimeError", tried)}
           [] o = "raise" -> {Pushed(p, "raised", tried)}
    ELSE lpush(disconnected(p, f), o, tried)

\* lpush that gives up when the factory chosen is not connected.
attemptNoRetry(p, f, o, tried) ==
    IF p.client[f] = "up"
    THEN CASE o = "ok" ->
                {Pushed([p EXCEPT !.pushes[f] = @ + 1], "ok", tried)}
           [] o = "error" -> {Pushed(p, "RuntimeError", tried)}
           [] o = "raise" -> {Pushed(p, "raised", tried)}
    ELSE {Pushed(disconnected(p, f), "NoClientError", tried)}

\* lpush that takes every failure for "Not connected".
attemptErrorRemoves(p, f, o, tried) ==
    IF p.client[f] = "up" /\ o # "error"
    THEN CASE o = "ok" ->
                {Pushed([p EXCEPT !.pushes[f] = @ + 1], "ok", tried)}
           [] o = "raise" -> {Pushed(p, "raised", tried)}
    ELSE lpush(disconnected(p, f), o, tried)

\* The part of lpush after factory = random.sample(self.factories, 1)[0]
attempt(p, f, o, tried) ==
    IF p.client[f] = "up"
    THEN CASE o = "ok" ->
                {Pushed([p EXCEPT !.pushes[f] = @ + 1], "ok", tried)}
           [] o = "error" -> {Pushed(p, "RuntimeError", tried)}
           [] o = "raise" -> {Pushed(p, "raised", tried)}
    ELSE lpush(disconnected(p, f), o, tried)

lpush(p, o, tried) ==
    IF p.factories = {}
    THEN {Pushed(p, "NoClientError", tried)}
    ELSE UNION {attempt(p, f, o, Append(tried, f)) : f \in p.factories}

\* RedisPublisher.sendEvent after the event was encoded, for what lpush came
\* to: the errors logged, and whether an exception leaves sendEvent.  When
\* lpush raised, log.err() is called and d.addErrback then finds no d.
\*   logged   the errors sendEvent logged
\*   escaped  an exception left sendEvent
pushHandled(result) ==
    CASE result = "ok" -> [logged |-> 0, escaped |-> FALSE]
      [] result = "NoClientError" -> [logged |-> 0, escaped |-> FALSE]
      [] result = "RuntimeError" -> [logged |-> 1, escaped |-> FALSE]
      [] result = "raised" -> [logged |-> 1, escaped |-> TRUE]

\* A pool and its publisher, before the first push.
\*   multi    the RedisPushMultiClient
\*   calls    the number of events the publisher was called with
\*   outcome  what the connected clients did in the last call
\*   result, tried   what the last lpush came to
\*   logged, escaped what sendEvent did with it
\*   readded  the factories that were put back into the live set
NothingPushed(F) ==
    [multi |-> RedisPushMultiClient(F), calls |-> 0, outcome |-> "ok",
     result |-> "none", tried |-> <<>>, logged |-> 0, escaped |-> FALSE,
     readded |-> {}]

\* ---------------------------------------------------- the service sinks
\*
\* RedisPublisher, DataDogPublisher and KafkaPublisher are services.  The
\* state the operations work on:
\*   consumers  DispatcherFromUDPLogProtocol._consumers, the sinks by name
\*   running    Service.running of each sink
\*   producer   KafkaPublisher._producer: "none" (None), "made", "stopped"
\*   thread     the call of _make_producer in a thread has not returned yet
\*   sent       for each sink, the events given to its client
\*   raised     the exceptions that left startService or stopService
\*   dlogged    the errors the dispatcher logged
\*   noProducer _sendEvent was called while _producer was None

Services == {"redis", "datadog", "kafka"}

\* KafkaPublisher.startService that registers before the producer is made.
startServiceRegisterFirst(st, s) ==
    IF s = "kafka"
    THEN [st EXCEPT !.thread = TRUE,
                    !.consumers = register(@, s)]
    ELSE [st EXCEPT !.running[s] = TRUE, !.consumers = register(@, s)]

\* startService of the sink s.  RedisPublisher and DataDogPublisher set
\* running and register sendEvent; KafkaPublisher hands _make_producer to a
\* thread and goes on (producerMade) when it has returned.
startService(st, s) ==
    IF s = "kafka"
    THEN [st EXCEPT !.thread = TRUE]
    ELSE [st EXCEPT !.running[s] = TRUE, !.consumers = register(@, s)]

\* KafkaPublisher.startService after the yield: the producer is stored, the
\* service is running and _sendEvent is registered.
producerMade(st) ==
    [st EXCEPT !.thread = FALSE, !.producer = "made",
               !.running["kafka"] = TRUE,
               !.consumers = register(@, "kafka")]

\* stopService of the sink s.  RedisPublisher and DataDogPublisher
\* unregister sendEvent and call Service.startService (running stays set);
\* KafkaPublisher unregisters _sendEvent, stops the producer (an
\* AttributeError while it is None) and calls Service.stopService.
stopService(st, s) ==
    LET st1 == [st EXCEPT !.consumers = unregister(@, s)]
    IN  IF s = "kafka"
        THEN IF st.producer = "none"
             THEN [st1 EXCEPT !.raised = @ + 1]
             ELSE [st1 EXCEPT !.producer = "stopped", !.running[s] = FALSE]
        ELSE [st1 EXCEPT !.running[s] = TRUE]

\* The consumer of the sink s called with an event the sink can encode and
\* hand over: client.lpush, client.send_event or producer.send_messages is
\* called once with it.  _sendEvent without a producer raises
\* AttributeError, which the dispatcher logs.
serviceSendEvent(st, s, event) ==
    IF s = "kafka" /\ st.producer = "none"
    THEN [st EXCEPT !.noProducer = TRUE, !.dlogged = @ + 1]
    ELSE [st EXCEPT !.sent[s] = Append(@, event)]

\* DispatcherFromUDPLogProtocol.eventReceived over the registered sinks in
\* the given order.
RECURSIVE serviceEventReceived(_, _, _)
serviceEventReceived(st, order, event) ==
    IF order = <<>>
    THEN st
    ELSE serviceEventReceived(serviceSendEvent(st, Head(order), event),
                              Tail(order), event)

\* ----------------------------------------------------- AsyncScribeClient
\*
\* The client of one connection:
\*   seqid    scribe.Client._seqid
\*   reqs     _reqs, from sequence ids to the Deferreds Log returned; the
\*            Deferred of the k-th call of Log is the number k
\*   waiter   for each Deferred: "none" (not made yet), "pending", or how it
\*            was fired first: "callback", "errback" (TApplicationException),
\*            "lost" (the failure of the closed connection)
\*   fired    how many times each Deferred was fired
\*   logged   the errors logged
\*   raised   the exceptions that left recv_Log

Waiters == 1..MaxLogs

AsyncScribeClient ==
    [seqid |-> 0, reqs |-> <<>>, waiter |-> [d \in Waiters |-> "none"],
     fired |-> [d \in Waiters |-> 0], logged |-> 0, raised |-> 0]

\* d.callback or d.errback on the Deferred d.
fire(c, d, how) ==
    [c EXCEPT !.waiter[d] = IF @ = "pending" THEN how ELSE @,
              !.fired[d] = @ + 1]

\* send_Log that does not advance the sequence id.
send_LogSameId(c) == c

\* AsyncScribeClient.send_Log: the request is written with _seqid, which is
\* then advanced.
send_Log(c) == [c EXCEPT !.seqid = @ + 1]

\* AsyncScribeClient.Log, returning the new Deferred d.
Log(c, d) ==
    send_Log([c EXCEPT !.waiter[d] = "pending",
                       !.reqs = (c.seqid :> d) @@ c.reqs])

\* The replies a server may send: a result with success set, an exception,
\* a result without success.
ReplyKinds == {"success", "exception", "missing"}

\* AsyncScribeClient.recv_Log: the Deferred stored under rseqid is popped
\* and fired; for an unknown rseqid the KeyError is logged and the use of d,
\* which is not bound, raises.
recv_Log(c, kind, rseqid) ==
    IF rseqid \in DOMAIN c.reqs
    THEN fire([c EXCEPT !.reqs = [s \in DOMAIN c.reqs \ {rseqid} |-> c.reqs[s]]],
              c.reqs[rseqid],
              IF kind = "success" THEN "callback" ELSE "errback")
    ELSE [c EXCEPT !.logged = @ + 1, !.raised = @ + 1]

\* The Deferreds in ds fired with the failure of the closed connection.
RECURSIVE failAll(_, _)
failAll(c, ds) ==
    IF ds = {}
    THEN c
    ELSE LET d == CHOOSE x \in ds : TRUE
         IN  failAll(fire(c, d, "lost"), ds \ {d})

\* connectionLost that does not call the base class.
scribeConnectionLostNoUpcall(c) == c

\* ScribeProtocol.connectionLost, for the client: the base class fires the
\* Deferreds of the pending requests with an exception (the docstring of
\* AsyncScribeClient).
scribeConnectionLost(c) == failAll(c, {c.reqs[s] : s \in DOMAIN c.reqs})

\* -------------------------------------------------------- UDPLogProtocol
\*
\* A datagram is a sequence of pieces of text: a piece is a letter, a colon,
\* a white space character or the text of a whole JSON value.

Whitespace == {" ", "\t", "\n"}

\* The JSON texts that occur in the datagrams and the values
\* simplejson.loads gives for them: the kind of the value and, for an
\* object, its fields.
JsonTexts ==
    ("{}" :> [kind |-> "object", fields |-> NoFields])
    @@ ("{\"message\": \"test\"}" :>
            [kind |-> "object", fields |-> "message" :> V("str", "test")])
    @@ ("{\"message\": \"test\", \"timestamp\": 1340634165}" :>
            [kind |-> "object",
             fields |-> ("message" :> V("str", "test"))
                        @@ ("timestamp" :> V("int", "1340634165"))])
    @@ ("{\"category\": \"other\"}" :>
            [kind |-> "object", fields |-> "category" :> V("str", "other")])
    @@ ("[]" :> [kind |-> "array", fields |-> NoFields])
    @@ ("\"text\"" :> [kind |-> "string", fields |-> NoFields])
    @@ ("3" :> [kind |-> "number", fields |-> NoFields])
    @@ ("null" :> [kind |-> "null", fields |-> NoFields])

\* The pieces joined to one text.
RECURSIVE Join(_)
Join(d) == IF d = <<>> THEN "" ELSE Head(d) \o Join(Tail(d))

\* str.rstrip and str.lstrip
RECURSIVE rstrip(_)
rstrip(d) ==
    IF d # <<>> /\ d[Len(d)] \in Whitespace
    THEN rstrip(SubSeq(d, 1, Len(d) - 1))
    ELSE d

RECURSIVE lstrip(_)
lstrip(d) ==
    IF d # <<>> /\ Head(d) \in Whitespace THEN lstrip(Tail(d)) ELSE d

\* The places of the colons in d.
Colons(d) == {i \in 1..Len(d) : d[i] = ":"}

Min(S) == CHOOSE i \in S : \A j \in S : i <= j

\* simplejson.loads(data): white space around the value is passed over; the
\* text has to be one JSON value.
loads(data) ==
    LET text == rstrip(lstrip(data))
    IN  IF Len(text) = 1 /\ text[1] \in DOMAIN JsonTexts
        THEN [exc |-> "none", value |-> JsonTexts[text[1]]]
        ELSE [exc |-> "ValueError",
              value |-> [kind |-> "null", fields |-> NoFields]]

\* udplog.unserialize: msg.split(':', 1) gives the text left of the first
\* colon and the rest; without a colon the unpacking raises ValueError.
unserialize(msg) ==
    IF Colons(msg) = {}
    THEN [exc |-> "ValueError", category |-> "",
          value |-> [kind |-> "null", fields |-> NoFields]]
    ELSE LET i == Min(Colons(msg))
             r == loads(SubSeq(msg, i + 1, Len(msg)))
         IN  [exc |-> r.exc, category |-> Join(SubSeq(msg, 1, i - 1)),
              value |-> r.value]

\* What datagramReceived did with a datagram:
\*   events  the events given to eventReceived
\*   logged  the errors logged
\*   exc     an exception left datagramReceived
Received(events, logged, exc) ==
    [events |-> events, logged |-> logged, exc |-> exc]

\* datagramReceived that does not set the category.
datagramReceivedNoCategory(datagram) ==
    LET r == unserialize(rstrip(datagram))
    IN  IF r.exc # "none" \/ r.value.kind # "object"
        THEN Received(<<>>, 1, FALSE)
        ELSE Received(<<r.value.fields>>, 0, FALSE)

\* datagramReceived that gives up on what it cannot decode without catching.
datagramReceivedNoExcept(datagram) ==
    LET r == unserialize(rstrip(datagram))
    IN  IF r.exc # "none" \/ r.value.kind # "object"
        THEN Received(<<>>, 0, TRUE)
        ELSE Received(<<SetItem(r.value.fields, "category",
                                V("str", r.category))>>, 0, FALSE)

\* UDPLogProtocol.datagramReceived: event['category'] = category raises
\* TypeError on a value that is no dict; ValueError and TypeError are logged.
datagramReceived(datagram) ==
    LET r == unserialize(rstrip(datagram))
    IN  IF r.exc # "none" \/ r.value.kind # "object"
        THEN Received(<<>>, 1, FALSE)
        ELSE Received(<<SetItem(r.value.fields, "category",
                                V("str", r.category))>>, 0, FALSE)

\* ---------------------------------------------------- UDPLogClientFactory
\*
\* The reconnect delay of the factory, in thousandths of a second.

\* UDPLogClientFactory.maxDelay, in seconds
maxDelay == 30

\* ReconnectingClientFactory.initialDelay, in seconds
initialDelay == 1

\* The values random.normalvariate(mu, sigma) is taken to give: the mean and
\* the values one sigma below and above it.
JitterSamples == {-1, 0, 1}

\* ReconnectingClientFactory.resetDelay
resetDelay(f) == [f EXCEPT !.delay = initialDelay * 1000, !.retries = 0]

\* UDPLogClientFactory.buildProtocol: the delay is reset and a protocol
\* built.
buildProtocol(f) == [resetDelay(f) EXCEPT !.built = @ + 1]

\* ReconnectingClientFactory.retry, which the factory inherits and calls
\* from clientConnectionLost and clientConnectionFailed:
\*   self.delay = min(self.delay * self.factor, self.maxDelay)
\*   if self.jitter:
\*       self.delay = random.normalvariate(self.delay,
\*                                         self.delay * self.jitter)
\* with factor = 2.718... and jitter = 0.1196..., which UDPLogClientFactory
\* leaves as they are; j is the sample drawn.
retry(f, j) ==
    LET grown == (f.delay * 2718) \div 1000
        capped == IF grown < maxDelay * 1000 THEN grown ELSE maxDelay * 1000
        sigma == (capped * 1196) \div 10000
    IN  [f EXCEPT !.delay = capped + j * sigma, !.retries = @ + 1]

\* -------------------------------------------------------------- UDPLogger
\*
\* The sender: an event is augmented, serialized to one datagram and sent
\* on a connected UDP socket; a failed send is reported by a second
\* datagram.

\* udplog.MAX_TRIMMED_MESSAGE_SIZE
MAX_TRIMMED_MESSAGE_SIZE == 200

\* The size above which socket.send raises EMSGSIZE.
MAX_DATAGRAM_SIZE == 8192

\* A value of the 'message' field.  Of a str (a byte string holding UTF-8)
\* and a unicode: ones characters of one byte followed by twos characters
\* of two bytes; cut, the first byte of one more two-byte character
\* follows; dots, the text ends in '[..]'.  t is "absent" when the event
\* has no message and "None" when the message is None.
Text(t, ones, twos) ==
    [t |-> t, ones |-> ones, twos |-> twos, cut |-> FALSE, dots |-> FALSE]

\* len(text) of a str or unicode
len(text) ==
    IF text.t = "unicode"
    THEN text.ones + text.twos + (IF text.dots THEN 4 ELSE 0)
    ELSE text.ones + 2 * text.twos + (IF text.cut THEN 1 ELSE 0)
            + (IF text.dots THEN 4 ELSE 0)

\* text[:n] of a text without '[..]': n characters of a unicode, n bytes
\* of a str.
slice(text, n) ==
    LET ones == Min({text.ones, n})
        rest == n - ones
    IN  IF text.t = "unicode"
        THEN [text EXCEPT !.ones = ones, !.twos = Min({text.twos, rest})]
        ELSE [text EXCEPT !.ones = ones,
                          !.twos = Min({text.twos, rest \div 2}),
                          !.cut = rest % 2 = 1 /\ text.twos > rest \div 2]

\* A category: the text name, n times.
Category(name, n) == [name |-> name, n |-> n]

\* The number of bytes simplejson.dumps makes of a message: the quotes,
\* the characters of one byte as they are and the others as \uXXXX.
dumpsSize(text) ==
    CASE text.t = "absent" -> 0
      [] text.t = "None" -> 4
      [] OTHER -> 2 + text.ones + 6 * text.twos + (IF text.dots THEN 4 ELSE 0)

\* UDPLogger.augment with no default fields: the event gets the time of
\* the call unless it has a timestamp.
augment(eventDict) ==
    [eventDict EXCEPT !.timestamp = IF @ = "absent" THEN "now" ELSE @]

\* UDPLogger.serialize: the datagram, or the exception simplejson.dumps
\* raised: a str that is not UTF-8 makes it raise UnicodeDecodeError.
\* text is the value among those of the event that is a byte string,
\* fields the number of bytes the other fields take.
serialize(category, eventDict, text, fields) ==
    IF text.t = "str" /\ text.cut
    THEN [raised |-> "UnicodeDecodeError"]
    ELSE [raised |-> "", category |-> category, event |-> eventDict,
          size |-> Len(category.name) * category.n + 2 + fields
                     + dumpsSize(text)]

\* UDPLogger.serializeFailure, the failure being the socket.error of the
\* send.  len(text) raises TypeError when the message is None; a long
\* message is cut to MAX_TRIMMED_MESSAGE_SIZE - 4 and '[..]' appended.
\* original_message_size is 0 where the event has no such field.
serializeFailure(category, eventDict, size) ==
    LET whole == eventDict.message
        long == len(whole) > MAX_TRIMMED_MESSAGE_SIZE
        text == IF whole.t = "absent" THEN whole
                ELSE IF long
                THEN [slice(whole, MAX_TRIMMED_MESSAGE_SIZE - 4)
                         EXCEPT !.dots = TRUE]
                ELSE whole
    IN  IF whole.t = "None"
        THEN [raised |-> "TypeError"]
        ELSE serialize(Category("udplog", 1),
                 [logLevel |-> "WARNING",
                  message |-> "Failed to send udplog message",
                  original |-> [category |-> category,
                                timestamp |-> eventDict.timestamp,
                                message |-> text],
                  original_message_size |->
                      IF whole.t # "absent" /\ long THEN len(whole) ELSE 0,
                  original_size |-> size],
                 text, 400 + Len(category.name) * category.n)

\* A UDPLogger before log is called: attempts the datagrams handed to
\* socket.send, sent those that left, stderr the number of texts printed
\* to standard error, raised the exception that left log.
UDPLogger ==
    [attempts |-> <<>>, sent |-> <<>>, stderr |-> 0, raised |-> ""]

\* socket.send(data) in log: it raises when the datagram is too long or
\* when refused, the peer having answered an earlier datagram with a
\* port unreachable.
socketSend(l, data, refused) ==
    IF data.size > MAX_DATAGRAM_SIZE \/ refused
    THEN [l EXCEPT !.attempts = Append(@, data)]
    ELSE [l EXCEPT !.attempts = Append(@, data), !.sent = Append(@, data)]

\* UDPLogger.log
log(l, category, eventDict, refused) ==
    LET ev == augment(eventDict)
        data == serialize(category, ev, ev.message, 40)
        first == socketSend(l, data, refused[1])
        regrets == serializeFailure(category, ev, data.size)
        second == socketSend(first, regrets, refused[2])
    IN  IF data.raised # "" THEN [l EXCEPT !.raised = data.raised]
        ELSE IF Len(first.sent) > Len(l.sent) THEN first
        ELSE IF regrets.raised # ""
        THEN [first EXCEPT !.raised = regrets.raised]
        ELSE IF Len(second.sent) > Len(first.sent) THEN second
        ELSE [second EXCEPT !.stderr = @ + 1]

\* ----------------------------------------------------------------- syslog
\*
\* The syslog ingress.  A line is given by the groups RE_SYSLOG finds in
\* it; a line the expression does not match has only its text.

FACILITIES ==
    <<"kern", "user", "mail", "daemon", "auth", "syslog", "lpr", "news",
      "uucp", "cron", "authpriv", "ftp", "ntp", "audit", "alert", "at",
      "local0", "local1", "local2", "local3", "local4", "local5",
      "local6", "local7">>

SEVERITIES ==
    <<"emerg", "alert", "crit", "err", "warn", "notice", "info", "debug">>

LOG_LEVELS ==
    ("emerg" :> "EMERGENCY") @@ ("alert" :> "ALERT") @@ ("crit" :> "CRITICAL")
    @@ ("err" :> "ERROR") @@ ("warn" :> "WARNING") @@ ("notice" :> "NOTICE")
    @@ ("info" :> "INFO") @@ ("debug" :> "DEBUG")

\* list[i] of Python: the first item has index 0, an index from Len(list)
\* on raises IndexError.
getitem(list, i) ==
    IF i < Len(list)
    THEN [exc |-> "none", value |-> list[i + 1]]
    ELSE [exc |-> "IndexError", value |-> ""]

\* parsePriority that takes the severity for the facility and the facility
\* for the severity.
parsePrioritySwapped(priority) ==
    LET facility == getitem(FACILITIES, priority % 8)
        severity == getitem(SEVERITIES, priority \div 8)
    IN  IF facility.exc # "none" \/ severity.exc # "none"
        THEN [exc |-> "IndexError", facility |-> "", severity |-> ""]
        ELSE [exc |-> "none", facility |-> facility.value,
              severity |-> severity.value]

\* parsePriority: divmod(priority, 8) gives the indexes of the facility and
\* of the severity.
parsePriority(priority) ==
    LET facility == getitem(FACILITIES, priority \div 8)
        severity == getitem(SEVERITIES, priority % 8)
    IN  IF facility.exc # "none" \/ severity.exc # "none"
        THEN [exc |-> "IndexError", facility |-> "", severity |-> ""]
        ELSE [exc |-> "none", facility |-> facility.value,
              severity |-> severity.value]

\* The timestamps of the lines that dateutil parses, with the seconds
\* since the epoch that calendar.timegm gives for them in the time zone of
\* the daemon; of any other text that RE_SYSLOG takes for a timestamp
\* parse raises ValueError.
Timestamps ==
    ("Jan 15 16:59:26" :> "1421337566") @@ ("Jan 16 21:00:00" :> "1421438400")

\* eventDict.update(cee) with the value json.loads gave: the fields of an
\* object are set, an empty list changes nothing, any other value raises.
update(eventDict, cee) ==
    CASE cee.kind = "object" ->
            [exc |-> "none",
             event |-> [f \in DOMAIN eventDict \cup DOMAIN cee.fields |->
                           IF f \in DOMAIN cee.fields THEN cee.fields[f]
                           ELSE eventDict[f]]]
      [] cee.kind = "array" -> [exc |-> "none", event |-> eventDict]
      [] OTHER -> [exc |-> "TypeError", event |-> eventDict]

\* parseSyslog
parseSyslog(line) ==
    LET p == parsePriority(line.priority)
        e1 == IF p.exc = "none"
              THEN ("facility" :> V("unicode", p.facility))
                   @@ ("severity" :> V("unicode", p.severity))
              ELSE NoFields
        e2 == IF line.timestamp \in DOMAIN Timestamps
              THEN SetItem(e1, "timestamp", V("datetime", line.timestamp))
              ELSE e1
        e3 == SetItem(SetItem(e2, "hostname", V("unicode", line.hostname)),
                      "tag", V("unicode", line.tag))
        e4 == IF line.pid # "" THEN SetItem(e3, "pid", V("unicode", line.pid))
              ELSE e3
        e5 == SetItem(e4, "message", V("unicode", line.message))
        cee == loads(<<line.cee>>)
    IN  IF ~line.match
        THEN [exc |-> "none", logged |-> 0,
              event |-> "message" :> V("unicode", line.message)]
        ELSE IF line.cee = ""
        THEN [exc |-> "none", event |-> e5,
              logged |-> IF Has(e2, "timestamp") THEN 0 ELSE 1]
        ELSE IF cee.exc # "none"
        THEN [exc |-> "none",
              event |-> SetItem(e5, "message",
                           V("unicode", line.message \o " @cee: " \o line.cee)),
              logged |-> IF Has(e2, "timestamp") THEN 1 ELSE 2]
        ELSE [exc |-> update(e5, cee.value).exc,
              event |-> update(e5, cee.value).event,
              logged |-> IF Has(e2, "timestamp") THEN 0 ELSE 1]

\* syslogToUDPLogEvent that keeps the tag as it is.
syslogToUDPLogEventKeepTag(eventDict, hostnames) ==
    LET e1 == IF Has(eventDict, "timestamp")
              THEN SetItem(eventDict, "timestamp",
                           V("int", Timestamps[eventDict["timestamp"].v]))
              ELSE eventDict
        e2 == IF Has(e1, "category") THEN e1
              ELSE SetItem(e1, "category", V("unicode", "syslog"))
        e4 == IF Has(e2, "severity")
              THEN DelItem(SetItem(e2, "logLevel",
                               V("unicode", LOG_LEVELS[e2["severity"].v])),
                           "severity")
              ELSE e2
    IN  IF Has(e4, "hostname") /\ e4["hostname"].v \in DOMAIN hostnames
        THEN SetItem(e4, "hostname",
                     V("unicode", hostnames[e4["hostname"].v]))
        ELSE e4

\* syslogToUDPLogEvent; hostnames is the map of the host names to replace,
\* empty when none is given.
syslogToUDPLogEvent(eventDict, hostnames) ==
    LET e1 == IF Has(eventDict, "timestamp")
              THEN SetItem(eventDict, "timestamp",
                           V("int", Timestamps[eventDict["timestamp"].v]))
              ELSE eventDict
        e2 == IF Has(e1, "category") THEN e1
              ELSE SetItem(e1, "category", V("unicode", "syslog"))
        e3 == IF Has(e2, "tag")
              THEN DelItem(SetItem(e2, "appname", e2["tag"]), "tag")
              ELSE e2
        e4 == IF Has(e3, "severity")
              THEN DelItem(SetItem(e3, "logLevel",
                               V("unicode", LOG_LEVELS[e3["severity"].v])),
                           "severity")
              ELSE e3
    IN  IF Has(e4, "hostname") /\ e4["hostname"].v \in DOMAIN hostnames
        THEN SetItem(e4, "hostname",
                     V("unicode", hostnames[e4["hostname"].v]))
        ELSE e4

\* SyslogDatagramProtocol.datagramReceived: the event parseSyslog gave, the
\* events the callback was called with, the errors logged and the
\* exception that left the method.
syslogDatagramReceived(hostnames, line) ==
    LET parsed == parseSyslog(line)
    IN  IF parsed.exc # "none"
        THEN [parsed |-> parsed.event, out |-> <<>>,
              logged |-> parsed.logged, exc |-> parsed.exc]
        ELSE [parsed |-> parsed.event,
              out |-> <<syslogToUDPLogEvent(parsed.event, hostnames)>>,
              logged |-> parsed.logged, exc |-> "none"]

\* ----------------------------------- consumers that change the consumer set
\*
\* eventReceived iterates over self._consumers itself, not over a copy.  A
\* consumer may call register or unregister of the dispatcher while it is
\* called.  The iterator of a Python set raises RuntimeError ("Set changed
\* size during iteration") when it is asked for the next item and the set
\* has not the size it had when the loop began; the for statement is not
\* inside the try, so the error leaves eventReceived.
\*
\* st: consumers the set, acts what each consumer does when called (op
\* "none", "register" or "unregister", and the consumer c it is done to),
\* calls the number of times each consumer was called, removed the
\* consumers unregistered, raised whether RuntimeError left eventReceived.

\* consumer(event) for the consumer c.
reentrantCalled(st, c) ==
    LET act == st.acts[c]
        called == [st EXCEPT !.calls[c] = @ + 1]
    IN  CASE act.op = "register" ->
                [called EXCEPT !.consumers = register(@, act.c)]
          [] act.op = "unregister" ->
                [called EXCEPT !.consumers = unregister(@, act.c),
                               !.removed = @ \cup {act.c}]
          [] OTHER -> called

\* The loop of eventReceived over the set that had used items when the loop
\* began, order being the items not yet visited.
RECURSIVE iterate(_, _, _)
iterate(st, order, used) ==
    IF Cardinality(st.consumers) # used
    THEN [st EXCEPT !.raised = TRUE]
    ELSE IF order = <<>>
    THEN st
    ELSE iterate(reentrantCalled(st, Head(order)), Tail(order), used)

\* ------------------------------------------------- pushes in flight
\*
\* factory.client.lpush returns a Deferred, and lpush adds eb to it: a push
\* handed to a connected client is in flight until the client fires the
\* Deferred.  When the connection it was sent on is lost first, the client
\* fails the Deferred, with RuntimeError("Not connected") or with another
\* error.
\*
\* What a call of lpush, or of eb, comes to: the pool afterwards, the
\* factories tried, and the result: "pending" with the factory the push is
\* in flight on, or how the Deferred the call returned has failed.
InFlight(p, result, on, tried) ==
    [p |-> p, result |-> result, on |-> on, tried |-> tried]

\* RedisPushMultiClient.lpush with the push left in flight on a connected
\* client: the set of what it may come to, one for every choice
\* random.sample makes.  A factory without a client (AttributeError) or
\* whose client is not connected (eb, at once) is taken out and lpush is
\* called again.
RECURSIVE lpushInFlight(_, _)
lpushInFlight(p, tried) ==
    IF p.factories = {}
    THEN {InFlight(p, "NoClientError", 0, tried)}
    ELSE UNION {IF p.client[f] = "up"
                THEN {InFlight(p, "pending", f, Append(tried, f))}
                ELSE lpushInFlight(disconnected(p, f), Append(tried, f)) :
                f \in p.factories}

\* eb that calls lpush again without _disconnected.
ebKeepFactory(p, f, tried) == lpushInFlight(p, tried)

\* eb for a push in flight on the factory f that failed with
\* RuntimeError("Not connected"): self._disconnected(factory), whose
\* self.factories.remove(factory) raises KeyError when the factory is not
\* in the live set, then self.lpush again.
eb(p, f, tried) ==
    IF f \notin p.factories
    THEN {InFlight(p, "KeyError", 0, tried)}
    ELSE lpushInFlight(disconnected(p, f), tried)

\* ------------------------------------------------------------------ state

VARIABLES
    qp,         \* a QueueProducer driven on its own
    hist,       \* what happened to qp
    consumers,  \* DispatcherFromUDPLogProtocol._consumers
    received,   \* for each test consumer, the events it was called with
    dlogged,    \* the number of errors eventReceived logged
    draised,    \* an exception left eventReceived
    raising,    \* the test consumers that raise when called
    nevents,    \* the number of events dispatched
    scribe,     \* the ScribeProtocol instances built
    rabbit,     \* the RabbitMQPublisher instances built
    queueSize,  \* RabbitMQPublisher.queueSize
    evs,        \* events dispatched to the sinks, with their fields
    pool,       \* a RedisPushMultiClient, its factories and its publisher
    lastCall,   \* for each test consumer, the last of register / unregister
    svc,        \* the service sinks (Redis, DataDog, Kafka) and their clients
    sc,         \* an AsyncScribeClient and the Deferreds Log returned
    lv,         \* a ScribeProtocol with a configured minLogLevel
    dg,         \* the datagrams an ingress received and what it made of them
    rcf,        \* a UDPLogClientFactory and its reconnect delay
    ul,         \* a UDPLogger, its socket and what log did
    sy,         \* a syslog line and what the syslog ingress made of it
    it,         \* an eventReceived whose consumers change the consumer set
    fl          \* a RedisPushMultiClient and the pushes in flight on it

qvars == <<qp, hist>>

dvars == <<consumers, received, dlogged, draised, raising, nevents>>

svars == <<scribe, rabbit, queueSize>>

xvars == <<svc, sc, lv, dg, rcf, ul, sy, it, fl>>

ovars == <<evs, pool, lastCall, xvars>>

vars == <<qp, hist, consumers, received, dlogged, draised, raising, nevents,
          scribe, rabbit, queueSize, evs, pool, lastCall, svc, sc, lv, dg,
          rcf, ul, sy, it, fl>>

Sizes == {<<>>} \cup {<<n>> : n \in 1..MaxSize}

\* QueueProducer.__init__, nothing put yet.
QInit ==
    /\ qp \in {QueueProducer(m) : m \in Sizes}
    /\ hist = [nput |-> 0, stopped |-> FALSE, resumed |-> FALSE,
               repaused |-> FALSE, dropped |-> FALSE, pauseBase |-> 0,
               outBase |-> 0, resumeBase |-> 0, errors |-> 0,
               direct |-> FALSE]

\* The stand-alone producer is not used.
QUnused ==
    /\ qp = QueueProducer(<<>>)
    /\ hist = [nput |-> 0, stopped |-> FALSE, resumed |-> FALSE,
               repaused |-> FALSE, dropped |-> FALSE, pauseBase |-> 0,
               outBase |-> 0, resumeBase |-> 0, errors |-> 0,
               direct |-> FALSE]

\* DispatcherFromUDPLogProtocol.__init__, nothing dispatched yet.
DInit ==
    /\ consumers = {}
    /\ received = [c \in TestConsumers |-> <<>>]
    /\ dlogged = 0
    /\ draised = FALSE
    /\ nevents = 0

\* No connection made yet.
SInit ==
    /\ scribe = <<>>
    /\ rabbit = <<>>

\* The dispatcher with the sinks S configured, nothing dispatched yet.
NothingDispatched(S) ==
    [sinks |-> S, input |-> NoFields, event |-> NoFields,
     seen |-> [s \in Sinks |-> <<>>], after |-> [s \in Sinks |-> <<>>],
     sent |-> [s \in Sinks |-> <<>>], logged |-> [s \in Sinks |-> 0]]

\* No sink is configured.
EUnused == evs = NothingDispatched({})

\* The sinks the daemon was configured with.
EInit ==
    \E S \in SUBSET Sinks :
        /\ Cardinality(S) <= MaxSinks
        /\ evs = NothingDispatched(S)

\* No Redis host is configured.
PUnused == pool = NothingPushed({})

\* No consumer was registered or unregistered by hand.
LUnused == lastCall = [c \in TestConsumers |-> [op |-> "none", known |-> FALSE]]

\* No logger, syslog ingress, re-entrant consumer or push in flight is set
\* up.
YUnused ==
    /\ ul = <<>>
    /\ sy = <<>>
    /\ it = <<>>
    /\ fl = <<>>

\* The parts of the daemon that are not set up.
XUnused ==
    /\ YUnused
    /\ svc = <<>>
    /\ sc = <<>>
    /\ lv = <<>>
    /\ dg = <<>>
    /\ rcf = <<>>


\* ------------------------------------------------- a QueueProducer, driven
\*
\* One QueueProducer, driven as its owner and its transport drive it: put,
\* pauseProducing, resumeProducing, stopProducing, the clock and the
\* callback's Deferreds.  The k-th item put is the number k.
\*
\* hist records what happened, for the properties:
\*   nput        the number of put calls so far
\*   stopped     stopProducing was called
\*   resumed     resumeProducing was called
\*   repaused    pauseProducing was called after a resumeProducing
\*   dropped     a full queue discarded an item
\*   pauseBase   nput when the current (or last) paused interval began
\*   outBase     Len(output) when that interval began
\*   resumeBase  nput when that interval ended (when the producer is resumed)
\*   errors      the number of callback calls that reported an error
\*   direct      the last put handed its item to the callback itself

\* An item q held in its queue is neither held nor delivered in q2.
Discarded(q, q2) ==
    \E i \in Range(q.pending) :
        i \notin Range(q2.pending) /\ i \notin Range(q2.output)

\* Whether the callback call made in the step from q to q2 (if any) reported
\* an error, given its outcome o.
Errs(q, q2, o) ==
    IF Len(q2.output) > Len(q.output) /\ o \in {"fail", "raise"} THEN 1 ELSE 0

Put ==
    /\ hist.nput < MaxPuts
    /\ \E o \in CallbackOutcomes :
          LET x == hist.nput + 1
              q2 == put(qp, x, o)
          IN  /\ qp' = q2
              /\ hist' = [hist EXCEPT !.nput = x,
                                      !.dropped = @ \/ Discarded(qp, q2),
                                      !.errors = @ + Errs(qp, q2, o),
                                      !.direct =
                                          Len(q2.output) > Len(qp.output)]
    /\ UNCHANGED <<dvars, svars, ovars>>

\* The transport that stopped the producer has lost its connection and makes
\* no further call on it (IPushProducer), so pause, resume and stop are not
\* called after stopProducing.  A transport may pause a paused producer.
PauseProducing ==
    /\ ~hist.stopped
    /\ qp' = pauseProducing(qp)
    /\ hist' = IF qp.paused
               THEN [hist EXCEPT !.repaused = @ \/ hist.resumed]
               ELSE [hist EXCEPT !.repaused = TRUE,
                                 !.pauseBase = hist.nput,
                                 !.outBase = Len(qp.output)]
    /\ UNCHANGED <<dvars, svars, ovars>>

\* A transport resumes only a producer it has paused, and the producer's
\* owner resumes it once, right after building it (paused).
ResumeProducing ==
    /\ ~hist.stopped
    /\ qp.paused
    /\ \E o \in CallbackOutcomes :
          LET q2 == resumeProducing(qp, o)
          IN  /\ qp' = q2
              /\ hist' = [hist EXCEPT !.resumed = TRUE,
                                      !.resumeBase = hist.nput,
                                      !.errors = @ + Errs(qp, q2, o)]
    /\ UNCHANGED <<dvars, svars, ovars>>

StopProducing ==
    /\ ~hist.stopped
    /\ qp' = stopProducing(qp)
    /\ hist' = [hist EXCEPT !.stopped = TRUE]
    /\ UNCHANGED <<dvars, svars, ovars>>

DelayedCall ==
    /\ qp.timers > 0
    /\ \E o \in CallbackOutcomes :
          LET q2 == delayedCall(qp, o)
          IN  /\ qp' = q2
              /\ hist' = [hist EXCEPT !.errors = @ + Errs(qp, q2, o)]
    /\ UNCHANGED <<dvars, svars, ovars>>

CallbackFired ==
    /\ \E obj \in qp.inflight, ok \in BOOLEAN :
          /\ qp' = callbackFired(qp, obj, ok)
          /\ hist' = [hist EXCEPT !.errors = IF ok THEN @ ELSE @ + 1]
    /\ UNCHANGED <<dvars, svars, ovars>>

\* The producer on its own: no consumer, no session.
Init ==
    /\ QInit
    /\ DInit
    /\ raising = {}
    /\ SInit
    /\ queueSize = <<>>
    /\ EUnused
    /\ PUnused
    /\ LUnused
    /\ XUnused

Next ==
    \/ Put
    \/ PauseProducing
    \/ ResumeProducing
    \/ StopProducing
    \/ DelayedCall
    \/ CallbackFired

Spec == Init /\ [][Next]_vars

\* The reactor runs every DelayedCall, and every Deferred a callback returned
\* fires.
FairSpec ==
    Spec /\ WF_vars(DelayedCall) /\ WF_vars(CallbackFired)

\* --------------------------------------------------- the dispatcher, driven
\*
\* The dispatcher with consumers registered and unregistered by hand, some of
\* which raise, as in DispatcherFromUDPLogProtocolTest.  The k-th event
\* dispatched is the number k.

Register ==
    /\ \E c \in TestConsumers : consumers' = register(consumers, c)
    /\ UNCHANGED <<received, dlogged, draised, raising, nevents, qvars, svars, ovars>>

Unregister ==
    /\ \E c \in TestConsumers : consumers' = unregister(consumers, c)
    /\ UNCHANGED <<received, dlogged, draised, raising, nevents, qvars, svars, ovars>>

\* A datagram was decoded: eventReceived(event).
Dispatch ==
    \E order \in Orders(consumers), o \in CallbackOutcomes :
        LET st == eventReceived([received |-> received, dlogged |-> dlogged,
                                 draised |-> FALSE, scribe |-> scribe,
                                 rabbit |-> rabbit],
                                order, nevents + 1, raising, o)
        IN  /\ received' = st.received
            /\ dlogged' = st.dlogged
            /\ draised' = st.draised
            /\ scribe' = st.scribe
            /\ rabbit' = st.rabbit
            /\ nevents' = nevents + 1
            /\ UNCHANGED <<consumers, raising, queueSize, qvars, ovars>>

EventReceived ==
    /\ nevents < MaxEvents
    /\ Dispatch

DispatchInit ==
    /\ QUnused
    /\ DInit
    /\ raising \in SUBSET TestConsumers
    /\ SInit
    /\ queueSize = <<>>
    /\ EUnused
    /\ PUnused
    /\ LUnused
    /\ XUnused

DispatchNext ==
    \/ Register
    \/ Unregister
    \/ EventReceived

SpecDispatch == DispatchInit /\ [][DispatchNext]_vars

\* ------------------------------------------------- the sink sessions, driven
\*
\* A Scribe session and a RabbitMQ session on one dispatcher: connections are
\* made and lost, events are dispatched, the RabbitMQ transport pauses and
\* resumes the producer, the clock runs DelayedCalls, publishes complete.

Last(seq) == seq[Len(seq)]

\* ScribeProtocol.connectionMade, on a protocol the factory just built.
ScribeConnectionMade ==
    /\ Len(scribe) + Len(rabbit) < MaxConn
    /\ IF scribe = <<>> THEN TRUE ELSE ~Last(scribe).connected
    /\ scribe' = Append(scribe, ScribeProtocol)
    /\ consumers' = register(consumers, <<"scribe", Len(scribe) + 1>>)
    /\ UNCHANGED <<received, dlogged, draised, raising, nevents, rabbit,
                   queueSize, qvars, ovars>>

\* ScribeProtocol.connectionLost
ScribeConnectionLost ==
    /\ scribe # <<>>
    /\ Last(scribe).connected
    /\ scribe' = [scribe EXCEPT ![Len(scribe)].connected = FALSE]
    /\ consumers' = unregister(consumers, <<"scribe", Len(scribe)>>)
    /\ UNCHANGED <<received, dlogged, draised, raising, nevents, rabbit,
                   queueSize, qvars, ovars>>

\* RabbitMQPublisher.connectionMade, on a protocol the factory just built:
\* gotConnection starts and waits for the broker.
RabbitConnectionMade ==
    /\ Len(scribe) + Len(rabbit) < MaxConn
    /\ IF rabbit = <<>> THEN TRUE ELSE Last(rabbit).conn = "lost"
    /\ rabbit' = Append(rabbit, RabbitMQPublisher)
    /\ UNCHANGED <<dvars, scribe, queueSize, qvars, ovars>>

\* gotConnection goes on to self.chan = yield self.channel(1).
RabbitChannelOpened ==
    /\ rabbit # <<>>
    /\ Last(rabbit).conn = "handshake"
    /\ ~Last(rabbit).chan
    /\ rabbit' = [rabbit EXCEPT ![Len(rabbit)] = channelOpened(@)]
    /\ UNCHANGED <<dvars, scribe, queueSize, qvars, ovars>>

\* gotConnection runs to its end.
RabbitGotConnection ==
    /\ rabbit # <<>>
    /\ Last(rabbit).conn = "handshake"
    /\ Last(rabbit).chan
    /\ rabbit' = [rabbit EXCEPT ![Len(rabbit)] = gotConnection(@, queueSize)]
    /\ consumers' = register(consumers, <<"rabbit", Len(rabbit)>>)
    /\ UNCHANGED <<received, dlogged, draised, raising, nevents, scribe,
                   queueSize, qvars, ovars>>

\* A step of gotConnection fails.
RabbitHandshakeFailed ==
    /\ rabbit # <<>>
    /\ Last(rabbit).conn = "handshake"
    /\ rabbit' = [rabbit EXCEPT ![Len(rabbit)] = handshakeFailed(@)]
    /\ UNCHANGED <<dvars, scribe, queueSize, qvars, ovars>>

\* RabbitMQPublisher.connectionLost
RabbitConnectionLost ==
    /\ rabbit # <<>>
    /\ Last(rabbit).conn # "lost"
    /\ rabbit' = [rabbit EXCEPT ![Len(rabbit)] = connectionLost(@)]
    /\ consumers' = IF Last(rabbit).producer = <<>>
                    THEN consumers
                    ELSE unregister(consumers, <<"rabbit", Len(rabbit)>>)
    /\ UNCHANGED <<received, dlogged, draised, raising, nevents, scribe,
                   queueSize, qvars, ovars>>

\* The transport's write buffer is full.
RabbitPauseProducing ==
    /\ rabbit # <<>>
    /\ Last(rabbit).conn = "up"
    /\ rabbit' = [rabbit EXCEPT ![Len(rabbit)].producer[1] = pauseProducing(@)]
    /\ UNCHANGED <<dvars, scribe, queueSize, qvars, ovars>>

\* The transport's write buffer is empty again.
RabbitResumeProducing ==
    /\ rabbit # <<>>
    /\ Last(rabbit).conn = "up"
    /\ Last(rabbit).producer[1].paused
    /\ \E o \in CallbackOutcomes :
          rabbit' = [rabbit EXCEPT ![Len(rabbit)].producer[1] =
                        resumeProducing(@, rabbitSendEvent(Last(rabbit), o))]
    /\ UNCHANGED <<dvars, scribe, queueSize, qvars, ovars>>

\* The clock runs a DelayedCall of the producer of any publisher, lost or not.
RabbitDelayedCall ==
    /\ \E n \in 1..Len(rabbit), o \in CallbackOutcomes :
          /\ rabbit[n].producer # <<>>
          /\ rabbit[n].producer[1].timers > 0
          /\ rabbit' = [rabbit EXCEPT ![n].producer[1] =
                            delayedCall(@, rabbitSendEvent(rabbit[n], o))]
    /\ UNCHANGED <<dvars, scribe, queueSize, qvars, ovars>>

\* The Deferred of a basic_publish fires.
RabbitPublished ==
    /\ \E n \in 1..Len(rabbit), ok \in BOOLEAN :
          /\ rabbit[n].producer # <<>>
          /\ \E obj \in rabbit[n].producer[1].inflight :
                rabbit' = [rabbit EXCEPT ![n].producer[1] =
                              callbackFired(@, obj, ok)]
    /\ UNCHANGED <<dvars, scribe, queueSize, qvars, ovars>>

\* A datagram was decoded while the sessions run.
SinkEventReceived ==
    /\ nevents < MaxSinkEvents
    /\ Dispatch

\* The queue sizes a publisher is configured with: none, and the smallest.
SessionSizes == {<<>>, <<1>>}

SessionInit ==
    /\ QUnused
    /\ DInit
    /\ raising = {}
    /\ SInit
    /\ queueSize \in SessionSizes
    /\ EUnused
    /\ PUnused
    /\ LUnused
    /\ XUnused

SessionNext ==
    \/ ScribeConnectionMade
    \/ ScribeConnectionLost
    \/ RabbitConnectionMade
    \/ RabbitChannelOpened
    \/ RabbitGotConnection
    \/ RabbitHandshakeFailed
    \/ RabbitConnectionLost
    \/ RabbitPauseProducing
    \/ RabbitResumeProducing
    \/ RabbitDelayedCall
    \/ RabbitPublished
    \/ SinkEventReceived

SpecSession == SessionInit /\ [][SessionNext]_vars

\* ------------------------------------------- events with fields, driven
\*
\* The dispatcher with the consumers of the configured sinks registered;
\* events of different contents are dispatched.

\* The events a field may be absent from, or have one of the values vals in.
Opt(f, vals) == {NoFields} \cup {f :> v : v \in vals}

\* The events dispatched: ingress gives every event a category and a
\* timestamp; the message may be text, an object that cannot be encoded or a
\* str that is not UTF-8.
InputEvents ==
    {("category" :> V("str", "test")) @@ ("timestamp" :> V("int", "1340634165"))
        @@ ("message" :> m) @@ i @@ l @@ t :
        m \in {V("str", "test"), V("object", "Object()"), V("bytes", "\\xff")},
        i \in Opt("isError", {V("int", "0"), V("int", "1")}),
        l \in Opt("logLevel", {V("str", "DEBUG")}),
        t \in Opt("tags", {V("str", "a,b")})}

\* A datagram was decoded: eventReceived(e).  Of the last dispatch:
\*   input   the fields of e when the dispatch began
\*   event   the fields of e when it ended
\*   seen, after, sent, logged   as sinksEventReceived gives them
FieldsEventReceived ==
    /\ \E e \in InputEvents, order \in Orders(evs.sinks) :
          \E st \in {sinksEventReceived(
                         [event |-> e, seen |-> [s \in Sinks |-> <<>>],
                          after |-> [s \in Sinks |-> <<>>],
                          sent |-> [s \in Sinks |-> <<>>],
                          logged |-> [s \in Sinks |-> 0]], order)} :
              evs' = [sinks |-> evs.sinks, input |-> e,
                      event |-> st.event, seen |-> st.seen,
                      after |-> st.after, sent |-> st.sent,
                      logged |-> st.logged]
    /\ UNCHANGED <<qvars, dvars, svars, pool, lastCall, xvars>>

EventInit ==
    /\ QUnused
    /\ DInit
    /\ raising = {}
    /\ SInit
    /\ queueSize = <<>>
    /\ EInit
    /\ PUnused
    /\ LUnused
    /\ XUnused

EventNext == FieldsEventReceived

SpecEvent == EventInit /\ [][EventNext]_vars

\* ------------------------------------------------- the Redis pool, driven
\*
\* A RedisPublisher on a RedisPushMultiClient over the factories of the
\* configured hosts: connections are made and lost, events are dispatched.

Factories == 1..MaxFactories

\* redis.makeService: no factory has a client yet.
PInit == pool = NothingPushed(Factories)

FactoryConnected ==
    /\ \E f \in Factories :
          /\ pool.multi.client[f] # "up"
          /\ pool' = [pool EXCEPT
                          !.multi = factoryConnected(@, f),
                          !.readded = IF f \in pool.multi.factories
                                      THEN @ ELSE @ \cup {f}]
    /\ UNCHANGED <<qvars, dvars, svars, evs, lastCall, xvars>>

FactoryDisconnected ==
    /\ \E f \in Factories :
          /\ pool.multi.client[f] = "up"
          /\ pool' = [pool EXCEPT !.multi = factoryDisconnected(@, f)]
    /\ UNCHANGED <<qvars, dvars, svars, evs, lastCall, xvars>>

\* The dispatcher calls RedisPublisher.sendEvent with an event that can be
\* encoded.
RedisSendEvent ==
    /\ pool.calls < MaxPushes
    /\ \E o \in PushOutcomes :
          \E r \in lpush(pool.multi, o, <<>>) :
              pool' = [multi |-> r.p, calls |-> pool.calls + 1,
                       outcome |-> o, result |-> r.result, tried |-> r.tried,
                       logged |-> pushHandled(r.result).logged,
                       escaped |-> pushHandled(r.result).escaped,
                       readded |-> pool.readded]
    /\ UNCHANGED <<qvars, dvars, svars, evs, lastCall, xvars>>

RedisInit ==
    /\ QUnused
    /\ DInit
    /\ raising = {}
    /\ SInit
    /\ queueSize = <<>>
    /\ EUnused
    /\ PInit
    /\ LUnused
    /\ XUnused

RedisNext ==
    \/ FactoryConnected
    \/ FactoryDisconnected
    \/ RedisSendEvent

SpecRedis == RedisInit /\ [][RedisNext]_vars

\* ------------------------------------------- the service sinks, driven
\*
\* The services are started and stopped by the application, each once, while
\* events are dispatched.  svc.life is, for each sink, how far its life is:
\* "new", "starting" (startService was called and has not finished),
\* "started" (startService has finished), "stopped" (stopService was
\* called).  The k-th event dispatched is the number k.

ServiceState ==
    [consumers |-> consumers, running |-> svc.running,
     producer |-> svc.producer, thread |-> svc.thread, sent |-> svc.sent,
     raised |-> svc.raised, dlogged |-> dlogged,
     noProducer |-> svc.noProducer]

\* The state st becomes the next state; life is the next svc.life.
ServiceStep(st, life) ==
    /\ consumers' = st.consumers
    /\ dlogged' = st.dlogged
    /\ svc' = [running |-> st.running, producer |-> st.producer,
               thread |-> st.thread, sent |-> st.sent, raised |-> st.raised,
               noProducer |-> st.noProducer, life |-> life]

SvcInit ==
    /\ consumers = {}
    /\ svc = [running |-> [s \in Services |-> FALSE], producer |-> "none",
              thread |-> FALSE, sent |-> [s \in Services |-> <<>>],
              raised |-> 0, noProducer |-> FALSE,
              life |-> [s \in Services |-> "new"]]

StartService ==
    /\ \E s \in Services :
          /\ svc.life[s] = "new"
          /\ ServiceStep(startService(ServiceState, s),
                         [svc.life EXCEPT ![s] = IF s = "kafka"
                                                 THEN "starting"
                                                 ELSE "started"])
    /\ UNCHANGED <<received, draised, raising, nevents, qvars, svars, evs,
                   pool, lastCall, sc, lv, dg, rcf, ul, sy, it, fl>>

\* _make_producer has returned in its thread.
ProducerMade ==
    /\ svc.thread
    /\ ServiceStep(producerMade(ServiceState),
                   [svc.life EXCEPT !["kafka"] = IF @ = "starting"
                                                 THEN "started" ELSE @])
    /\ UNCHANGED <<received, draised, raising, nevents, qvars, svars, evs,
                   pool, lastCall, sc, lv, dg, rcf, ul, sy, it, fl>>

StopService ==
    /\ \E s \in Services :
          /\ svc.life[s] \in {"starting", "started"}
          /\ ServiceStep(stopService(ServiceState, s),
                         [svc.life EXCEPT ![s] = "stopped"])
    /\ UNCHANGED <<received, draised, raising, nevents, qvars, svars, evs,
                   pool, lastCall, sc, lv, dg, rcf, ul, sy, it, fl>>

ServiceEventReceived ==
    /\ nevents < MaxEvents
    /\ nevents' = nevents + 1
    /\ \E order \in Orders(consumers) :
          ServiceStep(serviceEventReceived(ServiceState, order, nevents + 1),
                      svc.life)
    /\ UNCHANGED <<received, draised, raising, qvars, svars, evs, pool,
                   lastCall, sc, lv, dg, rcf, ul, sy, it, fl>>

ServiceInit ==
    /\ QUnused
    /\ received = [c \in TestConsumers |-> <<>>]
    /\ dlogged = 0
    /\ draised = FALSE
    /\ nevents = 0
    /\ raising = {}
    /\ SInit
    /\ queueSize = <<>>
    /\ EUnused
    /\ PUnused
    /\ LUnused
    /\ SvcInit
    /\ sc = <<>>
    /\ lv = <<>>
    /\ dg = <<>>
    /\ rcf = <<>>
    /\ YUnused

ServiceNext ==
    \/ StartService
    \/ ProducerMade
    \/ StopService
    \/ ServiceEventReceived

SpecService == ServiceInit /\ [][ServiceNext]_vars

\* ------------------------------------------ an AsyncScribeClient, driven
\*
\* One connection to Scribe: sendEvent calls Log, the server replies with
\* sequence ids of its choice, the connection is lost.  Of sc:
\*   client     the AsyncScribeClient
\*   connected  the connection is up
\*   nlogs, nreplies  the calls of Log and of recv_Log so far
\*   rseqid, kind     the sequence id and kind of the last reply

ScInit ==
    sc = [client |-> AsyncScribeClient, connected |-> TRUE, nlogs |-> 0,
          nreplies |-> 0, rseqid |-> 0, kind |-> "success"]

\* ScribeProtocol.sendEvent: self.client.Log(messages=[entry]).
ScLog ==
    /\ sc.connected
    /\ sc.nlogs < MaxLogs
    /\ sc' = [sc EXCEPT !.client = Log(@, sc.nlogs + 1),
                        !.nlogs = @ + 1]
    /\ UNCHANGED <<qvars, dvars, svars, evs, pool, lastCall, svc, lv, dg, rcf, ul, sy, it, fl>>

\* A reply was received: recv_Log(iprot, mtype, rseqid).
ScReply ==
    /\ sc.connected
    /\ sc.nreplies < MaxReplies
    /\ \E rseqid \in 0..MaxLogs, kind \in ReplyKinds :
          sc' = [sc EXCEPT !.client = recv_Log(@, kind, rseqid),
                          !.nreplies = @ + 1,
                          !.rseqid = rseqid,
                          !.kind = kind]
    /\ UNCHANGED <<qvars, dvars, svars, evs, pool, lastCall, svc, lv, dg, rcf, ul, sy, it, fl>>

ScConnectionLost ==
    /\ sc.connected
    /\ sc' = [sc EXCEPT !.client = scribeConnectionLost(@),
                        !.connected = FALSE]
    /\ UNCHANGED <<qvars, dvars, svars, evs, pool, lastCall, svc, lv, dg, rcf, ul, sy, it, fl>>

ScribeClientInit ==
    /\ QUnused
    /\ DInit
    /\ raising = {}
    /\ SInit
    /\ queueSize = <<>>
    /\ EUnused
    /\ PUnused
    /\ LUnused
    /\ ScInit
    /\ svc = <<>>
    /\ lv = <<>>
    /\ dg = <<>>
    /\ rcf = <<>>
    /\ YUnused

ScribeClientNext ==
    \/ ScLog
    \/ ScReply
    \/ ScConnectionLost

SpecScribeClient == ScribeClientInit /\ [][ScribeClientNext]_vars

\* -------------------------------- a ScribeProtocol with a minimum, driven
\*
\* ScribeProtocol(dispatcher, minLogLevel) for the levels of the logging
\* module; events with any of the level names of udplog, or none, are given
\* to sendEvent.  Of lv:
\*   minLogLevel  the minimum the protocol was built with
\*   event        the last event
\*   sent         what sendEvent gave to Scribe for it

\* logging.DEBUG, INFO, WARNING, ERROR, CRITICAL
MinLevels == {10, 20, 30, 40, 50}

\* The level names of udplog (syslog.py), lowest first.
LevelNames ==
    <<"DEBUG", "INFO", "NOTICE", "WARNING", "ERROR", "CRITICAL", "ALERT",
      "EMERGENCY">>

LevelEvents ==
    {("category" :> V("str", "test")) @@ ("timestamp" :> V("int", "1340634165"))
        @@ ("message" :> V("str", m)) @@ l :
        m \in {"test", "other", ""},
        l \in Opt("logLevel", {V("str", n) : n \in Range(LevelNames)})}

LvInit ==
    \E min \in MinLevels :
        lv = [minLogLevel |-> min, event |-> NoFields, sent |-> <<>>]

LevelSendEvent ==
    /\ \E e \in LevelEvents :
          lv' = [lv EXCEPT !.event = e,
                           !.sent = sendEventScribeAt(e, lv.minLogLevel).sent]
    /\ UNCHANGED <<qvars, dvars, svars, evs, pool, lastCall, svc, sc, dg, rcf, ul, sy, it, fl>>

LevelInit ==
    /\ QUnused
    /\ DInit
    /\ raising = {}
    /\ SInit
    /\ queueSize = <<>>
    /\ EUnused
    /\ PUnused
    /\ LUnused
    /\ LvInit
    /\ svc = <<>>
    /\ sc = <<>>
    /\ dg = <<>>
    /\ rcf = <<>>
    /\ YUnused

LevelNext == LevelSendEvent

SpecLevel == LevelInit /\ [][LevelNext]_vars

\* ------------------------------------------------ the native ingress, driven
\*
\* Datagrams arrive at a UDPLogProtocol.  Of dg:
\*   n         the datagrams received
\*   datagram  the last one
\*   events    the events eventReceived was called with for the last one
\*   nevents   the calls of eventReceived so far
\*   logged    the errors logged so far
\*   exc       an exception left datagramReceived

\* The datagrams sent: a category or none, colons or none, and after them
\* white space, a JSON text, other text, two JSON texts or nothing, with
\* trailing white space or without.
Datagrams ==
    {c \o s \o l \o j \o t :
        c \in {<<>>, <<"a">>, <<"a", "b">>},
        s \in {<<>>, <<":">>, <<":", ":">>},
        l \in {<<>>, <<"\t">>},
        j \in {<<>>, <<"x">>, <<"{\"message\": \"test\"">>, <<"{}", "{}">>}
              \cup {<<x>> : x \in DOMAIN JsonTexts},
        t \in {<<>>, <<" ", "\n">>}}

DgInit ==
    dg = [n |-> 0, datagram |-> <<>>, events |-> <<>>, nevents |-> 0,
          logged |-> 0, exc |-> FALSE]

DatagramReceived ==
    /\ dg.n < MaxDatagrams
    /\ \E d \in Datagrams :
          \E r \in {datagramReceived(d)} :
              dg' = [n |-> dg.n + 1, datagram |-> d, events |-> r.events,
                     nevents |-> dg.nevents + Len(r.events),
                     logged |-> dg.logged + r.logged,
                     exc |-> dg.exc \/ r.exc]
    /\ UNCHANGED <<qvars, dvars, svars, evs, pool, lastCall, svc, sc, lv, rcf, ul, sy, it, fl>>

IngressInit ==
    /\ QUnused
    /\ DInit
    /\ raising = {}
    /\ SInit
    /\ queueSize = <<>>
    /\ EUnused
    /\ PUnused
    /\ LUnused
    /\ DgInit
    /\ svc = <<>>
    /\ sc = <<>>
    /\ lv = <<>>
    /\ rcf = <<>>
    /\ YUnused

IngressNext == DatagramReceived

SpecIngress == IngressInit /\ [][IngressNext]_vars

\* ------------------------------------ register and unregister, driven
\*
\* Consumers are registered and unregistered in any order, also twice in a
\* row, while events are dispatched.  lastCall is, for each consumer, the
\* last call made for it (op: "none", "register", "unregister") and whether
\* the consumer was registered when the call was made (known).

RegConsumers == {<<"test", n>> : n \in 1..MaxRegistered}

RegisterCalled ==
    /\ \E c \in RegConsumers :
          /\ consumers' = register(consumers, c)
          /\ lastCall' = [lastCall EXCEPT
                              ![c] = [op |-> "register",
                                      known |-> c \in consumers]]
    /\ UNCHANGED <<received, dlogged, draised, raising, nevents, qvars, svars,
                   evs, pool, xvars>>

UnregisterCalled ==
    /\ \E c \in RegConsumers :
          /\ consumers' = unregister(consumers, c)
          /\ lastCall' = [lastCall EXCEPT
                              ![c] = [op |-> "unregister",
                                      known |-> c \in consumers]]
    /\ UNCHANGED <<received, dlogged, draised, raising, nevents, qvars, svars,
                   evs, pool, xvars>>

RegisterInit ==
    /\ QUnused
    /\ DInit
    /\ raising = {}
    /\ SInit
    /\ queueSize = <<>>
    /\ EUnused
    /\ PUnused
    /\ LUnused
    /\ XUnused

RegisterNext ==
    \/ RegisterCalled
    \/ UnregisterCalled
    \/ EventReceived

SpecRegister == RegisterInit /\ [][RegisterNext]_vars

\* ------------------------------------------- the client factory, driven
\*
\* A UDPLogClientFactory in a TCPClient: connections are made, lost, and
\* attempts fail.  Of rcf: delay, retries as in the factory, built the
\* protocols built, connected whether a connection is up.

RcfInit ==
    rcf = [delay |-> initialDelay * 1000, retries |-> 0, built |-> 0,
           connected |-> FALSE]

\* A connection attempt succeeded.
BuildProtocol ==
    /\ ~rcf.connected
    /\ rcf.built < MaxBuilds
    /\ rcf' = [buildProtocol(rcf) EXCEPT !.connected = TRUE]
    /\ UNCHANGED <<qvars, dvars, svars, evs, pool, lastCall, svc, sc, lv, dg, ul, sy, it, fl>>

ClientConnectionLost ==
    /\ rcf.connected
    /\ \E j \in JitterSamples :
          rcf' = [retry(rcf, j) EXCEPT !.connected = FALSE]
    /\ UNCHANGED <<qvars, dvars, svars, evs, pool, lastCall, svc, sc, lv, dg, ul, sy, it, fl>>

ClientConnectionFailed ==
    /\ ~rcf.connected
    /\ rcf.retries < MaxRetries
    /\ \E j \in JitterSamples : rcf' = retry(rcf, j)
    /\ UNCHANGED <<qvars, dvars, svars, evs, pool, lastCall, svc, sc, lv, dg, ul, sy, it, fl>>

FactoryInit ==
    /\ QUnused
    /\ DInit
    /\ raising = {}
    /\ SInit
    /\ queueSize = <<>>
    /\ EUnused
    /\ PUnused
    /\ LUnused
    /\ RcfInit
    /\ svc = <<>>
    /\ sc = <<>>
    /\ lv = <<>>
    /\ dg = <<>>
    /\ YUnused

FactoryNext ==
    \/ BuildProtocol
    \/ ClientConnectionLost
    \/ ClientConnectionFailed

SpecFactory == FactoryInit /\ [][FactoryNext]_vars

\* ------------------------------------------------- the UDPLogger, driven
\*
\* A UDPLogger whose log is called with events of several sizes, the
\* socket failing or not.  ul holds what the last call was given and what
\* it did.

\* The messages logged: none, None as UDPLogObserver.emit gives when an
\* event has no text, byte strings and unicode strings of several lengths.
Messages ==
    {Text("absent", 0, 0), Text("None", 0, 0)}
        \cup {Text("str", o, t) : o \in {0, 1, 4}, t \in {0, 100, 5000}}
        \cup {Text("unicode", o, 0) : o \in {4, MAX_DATAGRAM_SIZE}}

\* The categories logged.
Categories == {Category("atest", 1), Category("a", MAX_DATAGRAM_SIZE)}

UlInit == ul = [category |-> Category("atest", 1),
                eventDict |-> [message |-> Text("absent", 0, 0),
                               timestamp |-> "absent"],
                refused |-> <<FALSE, FALSE>>, logger |-> UDPLogger]

\* logger.log(category, eventDict) on a fresh logger.
LoggerLog ==
    /\ \E category \in Categories, message \in Messages,
          timestamp \in {"absent", "given"},
          refused \in BOOLEAN \X BOOLEAN :
          \E eventDict \in {[message |-> message, timestamp |-> timestamp]} :
              ul' = [category |-> category, eventDict |-> eventDict,
                     refused |-> refused,
                     logger |-> log(UDPLogger, category, eventDict, refused)]
    /\ UNCHANGED <<qvars, dvars, svars, evs, pool, lastCall, svc, sc, lv, dg,
                   rcf, sy, it, fl>>

LoggerInit ==
    /\ QUnused
    /\ DInit
    /\ raising = {}
    /\ SInit
    /\ queueSize = <<>>
    /\ EUnused
    /\ PUnused
    /\ LUnused
    /\ svc = <<>>
    /\ sc = <<>>
    /\ lv = <<>>
    /\ dg = <<>>
    /\ rcf = <<>>
    /\ UlInit
    /\ sy = <<>>
    /\ it = <<>>
    /\ fl = <<>>

LoggerNext == LoggerLog

SpecLogger == LoggerInit /\ [][LoggerNext]_vars

\* -------------------------------------------- the syslog ingress, driven
\*
\* A SyslogDatagramProtocol that receives lines.  Of sy: hostnames the map
\* it was made with, line the last line, parsed, out, logged and exc what
\* became of it.

\* A line RE_SYSLOG matches, by its groups.
Line(priority, timestamp, hostname, tag, pid, message, cee) ==
    [match |-> TRUE, priority |-> priority, timestamp |-> timestamp,
     hostname |-> hostname, tag |-> tag, pid |-> pid, message |-> message,
     cee |-> cee]

\* The lines received: one of every priority, lines of all shapes with a
\* valid and an invalid priority, and a line that is not RFC 3164.
Lines ==
    {Line(p, "Jan 15 16:59:26", "myhost", "test", "", "hello", "") :
        p \in 0..MaxPriority}
    \cup {Line(p, t, h, "test", pid, "blah", cee) :
            p \in {13, 192},
            t \in {"Jan 16 21:00:00", "Foo 99 99:99:99"},
            h \in {"myhost", "waar"}, pid \in {"", "1234"},
            cee \in {"", "{\"category\": \"other\"}", "{", "[]", "3"}}
    \cup {[match |-> FALSE, priority |-> 0, timestamp |-> "", hostname |-> "",
           tag |-> "", pid |-> "", message |-> "hello", cee |-> ""]}

\* The maps of host names the protocol is made with.
Hostnames ==
    {[h \in {} |-> ""], "myhost" :> "myhost.example.org"}

\* SyslogDatagramProtocol.__init__
SyInit ==
    \E hostnames \in Hostnames :
        sy = [hostnames |-> hostnames, received |-> FALSE,
              line |-> Line(0, "", "", "", "", "", ""),
              parsed |-> NoFields, out |-> <<>>, logged |-> 0,
              exc |-> "none"]

SyslogDatagramReceived ==
    /\ \E line \in Lines :
          \E r \in {syslogDatagramReceived(sy.hostnames, line)} :
              sy' = [hostnames |-> sy.hostnames, received |-> TRUE,
                     line |-> line, parsed |-> r.parsed, out |-> r.out,
                     logged |-> r.logged, exc |-> r.exc]
    /\ UNCHANGED <<qvars, dvars, svars, evs, pool, lastCall, svc, sc, lv, dg,
                   rcf, ul, it, fl>>

SyslogInit ==
    /\ QUnused
    /\ DInit
    /\ raising = {}
    /\ SInit
    /\ queueSize = <<>>
    /\ EUnused
    /\ PUnused
    /\ LUnused
    /\ svc = <<>>
    /\ sc = <<>>
    /\ lv = <<>>
    /\ dg = <<>>
    /\ rcf = <<>>
    /\ ul = <<>>
    /\ SyInit
    /\ it = <<>>
    /\ fl = <<>>

SyslogNext == SyslogDatagramReceived

SpecSyslog == SyslogInit /\ [][SyslogNext]_vars

\* ------------------------- consumers that change the consumer set, driven
\*
\* A dispatcher whose consumers register and unregister consumers while
\* they are called.  Of it: consumers, acts, calls, removed and raised as
\* above, calls, removed and raised being those of the last dispatch; began
\* is the consumer set when the last dispatch began, n the number of
\* dispatches.

\* What a consumer does when it is called.
Acts ==
    {[op |-> "none", c |-> <<"test", 1>>]}
        \cup {[op |-> op, c |-> c] :
                op \in {"register", "unregister"}, c \in TestConsumers}

ItInit ==
    it = [consumers |-> {}, acts |-> [c \in TestConsumers |->
                                         [op |-> "none", c |-> <<"test", 1>>]],
          calls |-> [c \in TestConsumers |-> 0], removed |-> {},
          raised |-> FALSE, began |-> {}, n |-> 0]

\* dispatcher.register(c), c a consumer that does act when called.
ItRegister ==
    /\ \E c \in TestConsumers \ it.consumers, act \in Acts :
          it' = [it EXCEPT !.consumers = register(@, c), !.acts[c] = act]
    /\ UNCHANGED <<qvars, dvars, svars, evs, pool, lastCall, svc, sc, lv, dg,
                   rcf, ul, sy, fl>>

\* dispatcher.eventReceived(event)
ItEventReceived ==
    /\ it.n < MaxEvents
    /\ \E order \in Orders(it.consumers) :
          it' = [iterate([it EXCEPT !.calls = [c \in TestConsumers |-> 0],
                                    !.removed = {}, !.raised = FALSE],
                         order, Cardinality(it.consumers))
                    EXCEPT !.began = it.consumers, !.n = it.n + 1]
    /\ UNCHANGED <<qvars, dvars, svars, evs, pool, lastCall, svc, sc, lv, dg,
                   rcf, ul, sy, fl>>

ReentrantInit ==
    /\ QUnused
    /\ DInit
    /\ raising = {}
    /\ SInit
    /\ queueSize = <<>>
    /\ EUnused
    /\ PUnused
    /\ LUnused
    /\ svc = <<>>
    /\ sc = <<>>
    /\ lv = <<>>
    /\ dg = <<>>
    /\ rcf = <<>>
    /\ ul = <<>>
    /\ sy = <<>>
    /\ ItInit
    /\ fl = <<>>

ReentrantNext ==
    \/ ItRegister
    \/ ItEventReceived

SpecReentrant == ReentrantInit /\ [][ReentrantNext]_vars

\* ------------------------------------------- pushes in flight, driven
\*
\* A RedisPushMultiClient whose clients answer later: calls of lpush are
\* made, connections are made and lost, the clients fire the Deferreds of
\* the pushes in flight.  Of fl:
\*   multi   the RedisPushMultiClient
\*   conns   the number of connections made and lost
\*   calls   for each call of lpush: state ("idle" before it is made,
\*           "pending" with a push in flight, "done"), on the factory the
\*           push is in flight on, lost whether the connection it was sent
\*           on is gone, result how the Deferred of the call fired,
\*           attempts the number of factories tried, live0 the size of the
\*           live set when the call was made, readded the number of times
\*           a factory was put back into the live set since then, shared
\*           whether pushes of other calls were in flight on the same
\*           connection when it was lost, handled the factory when the last
\*           step was eb for a push of this call that failed on it with
\*           "Not connected", else 0

PushCalls == 1..MaxPushes

FlInit ==
    fl = [multi |-> [RedisPushMultiClient(Factories) EXCEPT
                        !.client = [f \in Factories |-> "up"]],
          conns |-> 0,
          calls |-> [k \in PushCalls |->
                        [state |-> "idle", on |-> 0, lost |-> FALSE,
                         result |-> "none", attempts |-> 0, live0 |-> 0,
                         readded |-> 0, shared |-> FALSE, handled |-> 0]]]

\* The calls with handled reset.
Unhandled(calls) == [k \in PushCalls |-> [calls[k] EXCEPT !.handled = 0]]

\* What the call c becomes by r, what lpush or eb came to.
Continued(c, r) ==
    [c EXCEPT !.state = IF r.result = "pending" THEN "pending" ELSE "done",
              !.on = r.on, !.lost = FALSE,
              !.result = IF r.result = "pending" THEN "none" ELSE r.result,
              !.attempts = @ + Len(r.tried)]

\* What the call c becomes when the Deferred of its push fires with result.
Fired(c, result) ==
    [c EXCEPT !.state = "done", !.on = 0, !.lost = FALSE, !.result = result]

\* multi.lpush(key, value): the calls are made in the order of their
\* numbers.
FlLpush ==
    /\ \E k \in PushCalls :
          /\ fl.calls[k].state = "idle"
          /\ \A j \in 1..(k - 1) : fl.calls[j].state # "idle"
          /\ \E r \in lpushInFlight(fl.multi, <<>>) :
                fl' = [fl EXCEPT
                          !.multi = r.p,
                          !.calls = [Unhandled(fl.calls) EXCEPT
                                        ![k] = [Continued(@, r) EXCEPT
                                                   !.live0 = Cardinality(
                                                       fl.multi.factories)]]]
    /\ UNCHANGED <<qvars, dvars, svars, evs, pool, lastCall, svc, sc, lv, dg,
                   rcf, ul, sy, it>>

\* The client fires the Deferred of a push in flight: with a result, with an
\* error, or, the connection being gone, with "Not connected".
FlReply ==
    /\ \E k \in PushCalls :
          /\ fl.calls[k].state = "pending"
          /\ \/ /\ ~fl.calls[k].lost
                /\ fl' = [fl EXCEPT
                             !.calls = [Unhandled(fl.calls) EXCEPT
                                           ![k] = Fired(@, "ok")]]
             \/ fl' = [fl EXCEPT
                          !.calls = [Unhandled(fl.calls) EXCEPT
                                        ![k] = Fired(@, "RuntimeError")]]
             \/ /\ fl.calls[k].lost
                /\ \E r \in eb(fl.multi, fl.calls[k].on, <<>>) :
                      fl' = [fl EXCEPT
                                !.multi = r.p,
                                !.calls = [Unhandled(fl.calls) EXCEPT
                                              ![k] = [Continued(@, r) EXCEPT
                                                         !.handled =
                                                             fl.calls[k].on]]]
    /\ UNCHANGED <<qvars, dvars, svars, evs, pool, lastCall, svc, sc, lv, dg,
                   rcf, ul, sy, it>>

\* A connection of a factory was made.
FlFactoryConnected ==
    /\ fl.conns < MaxConn
    /\ \E f \in Factories :
          /\ fl.multi.client[f] # "up"
          /\ fl' = [fl EXCEPT
                       !.multi = factoryConnected(@, f),
                       !.conns = @ + 1,
                       !.calls = [k \in PushCalls |->
                                     [fl.calls[k] EXCEPT
                                         !.handled = 0,
                                         !.readded =
                                             IF fl.calls[k].state = "pending"
                                                /\ f \notin fl.multi.factories
                                                /\ fl.multi.callbacks[f] > 0
                                             THEN @ + 1 ELSE @]]]
    /\ UNCHANGED <<qvars, dvars, svars, evs, pool, lastCall, svc, sc, lv, dg,
                   rcf, ul, sy, it>>

\* The push of the call k is in flight on the factory f.
OnFactory(k, f) == fl.calls[k].state = "pending" /\ fl.calls[k].on = f

\* The connection of a factory is lost, with the pushes in flight on it.
FlFactoryDisconnected ==
    /\ fl.conns < MaxConn
    /\ \E f \in Factories :
          /\ fl.multi.client[f] = "up"
          /\ fl' = [fl EXCEPT
                       !.multi = factoryDisconnected(@, f),
                       !.conns = @ + 1,
                       !.calls = [k \in PushCalls |->
                                     [fl.calls[k] EXCEPT
                                         !.handled = 0,
                                         !.lost = @ \/ OnFactory(k, f),
                                         !.shared =
                                             IF OnFactory(k, f)
                                             THEN \E j \in PushCalls \ {k} :
                                                      OnFactory(j, f)
                                             ELSE @]]]
    /\ UNCHANGED <<qvars, dvars, svars, evs, pool, lastCall, svc, sc, lv, dg,
                   rcf, ul, sy, it>>

FlightInit ==
    /\ QUnused
    /\ DInit
    /\ raising = {}
    /\ SInit
    /\ queueSize = <<>>
    /\ EUnused
    /\ PUnused
    /\ LUnused
    /\ svc = <<>>
    /\ sc = <<>>
    /\ lv = <<>>
    /\ dg = <<>>
    /\ rcf = <<>>
    /\ ul = <<>>
    /\ sy = <<>>
    /\ it = <<>>
    /\ FlInit

FlightNext ==
    \/ FlLpush
    \/ FlReply
    \/ FlFactoryConnected
    \/ FlFactoryDisconnected

SpecFlight == FlightInit /\ [][FlightNext]_vars

\* ----------------------------------------- properties of the dispatcher

\* C1: eventReceived(e) calls every consumer that is registered at the time
\* of the call exactly once with e and no consumer that is not registered,
\* whatever the other consumers raise: every raising consumer is logged, no
\* exception reaches the caller, and the other consumers still receive e.
C1_Step ==
    nevents' # nevents =>
        /\ \A c \in TestConsumers :
              received'[c] = IF c \in consumers
                             THEN Append(received[c], nevents')
                             ELSE received[c]
        /\ ~draised'
        /\ dlogged' = dlogged + Cardinality(consumers \cap raising)

C1_DispatchOnce == [][C1_Step]_vars

\* An event reached a raising consumer and a consumer that does not raise.
C1_Witness ==
    /\ nevents > 0
    /\ dlogged > 0
    /\ \E c \in consumers \cap raising, d \in consumers \ raising :
          /\ received[c] # <<>>
          /\ received[d] # <<>>
          /\ Last(received[c]) = nevents
          /\ Last(received[d]) = nevents

\* ------------------------------------------- properties of QueueProducer

\* The items the callback has been called with since the current (or last)
\* paused interval began.
DeliveredSincePause == SubSeq(qp.output, hist.outBase + 1, Len(qp.output))

\* The number of put calls made in the current (or last) paused interval.
IntervalPuts ==
    (IF qp.paused THEN hist.nput ELSE hist.resumeBase) - hist.pauseBase

\* No put call was made since the paused interval ended.
NoPutSinceResume == qp.paused \/ hist.nput = hist.resumeBase

\* The last n items put in the paused interval, in put order.
LastPuts(n) ==
    [k \in 1..n |-> hist.pauseBase + IntervalPuts - n + k]

\* The producer holds items, is neither paused nor stopped, and nothing is
\* left that would call _processQueue: no DelayedCall, no callback Deferred.
Stalled ==
    /\ qp.pending # <<>>
    /\ ~qp.paused
    /\ ~hist.stopped
    /\ qp.timers = 0
    /\ qp.inflight = {}

\* Idle: resumed, the waiter armed, nothing queued, no callback in flight.
Idle == ~qp.paused /\ qp.waiting /\ qp.pending = <<>> /\ qp.inflight = {}

\* C2: whatever the interleaving of put, pauseProducing, resumeProducing and
\* callback completions, at most one callback invocation is in flight (its
\* Deferred not yet fired) at any time; every invocation receives one item.
C2_OneInFlight == Cardinality(qp.inflight) <= 1

\* C3: a queue of size N never holds more than N items; a put that is queued
\* on a full queue discards the oldest item; and after a paused interval with
\* M > N puts the callback receives exactly the last N items put, in put
\* order (until the next put: what was delivered since, followed by what is
\* still queued, is those N items).
C3_State ==
    Len(qp.maxlen) = 1 =>
        /\ Len(qp.pending) <= qp.maxlen[1]
        /\ (NoPutSinceResume /\ IntervalPuts > qp.maxlen[1]) =>
              DeliveredSincePause \o qp.pending = LastPuts(qp.maxlen[1])

C3_Step ==
    (/\ hist'.nput # hist.nput
     /\ qp'.output = qp.output
     /\ Len(qp.maxlen) = 1
     /\ Len(qp.pending) = qp.maxlen[1]) =>
        /\ qp'.pending = Append(Tail(qp.pending), hist'.nput)
        /\ hist'.dropped

C3_BoundedQueue == []C3_State /\ [][C3_Step]_vars

C3_Witness ==
    /\ Len(qp.maxlen) = 1
    /\ ~qp.paused
    /\ NoPutSinceResume
    /\ IntervalPuts > qp.maxlen[1]
    /\ qp.pending = <<>>
    /\ Len(DeliveredSincePause) = qp.maxlen[1]

\* C4: while the producer is paused no callback invocation begins: in a step
\* that starts and ends paused (any handler but resumeProducing) the callback
\* is not called, a put leaves its item at the end of the queue, and this
\* includes the DelayedCall scheduled by a Deferred that fired after the
\* pause.
C4_PausedNoDelivery ==
    [][(qp.paused /\ qp'.paused) =>
          /\ qp'.output = qp.output
          /\ hist'.nput # hist.nput =>
                /\ qp'.pending # <<>>
                /\ qp'.pending[Len(qp'.pending)] = hist'.nput]_vars

\* A DelayedCall ran while the producer was paused and items were queued:
\* the waiter is armed, the items are still queued.
C4_Witness ==
    /\ qp.paused
    /\ qp.waiting
    /\ qp.pending # <<>>
    /\ qp.output # <<>>
    /\ qp.timers = 0
    /\ qp.inflight = {}

\* A step that takes the head of the queue and calls the callback with it.
QueueDelivery ==
    /\ qp.pending # <<>>
    /\ qp'.pending = Tail(qp.pending)
    /\ qp'.output = Append(qp.output, Head(qp.pending))

\* C5: once the producer is resumed and is not paused or stopped again, and
\* with every DelayedCall run and every callback Deferred fired, the items in
\* the queue are all delivered (the queue is empty again and again), one at
\* a time: an item leaves the queue for the callback only when the callback
\* Deferred of the item before it has fired.
C5_QueueDrains ==
    /\ <>[](~qp.paused /\ ~hist.stopped) => []<>(qp.pending = <<>>)
    /\ [][QueueDelivery => qp.inflight = {}]_vars

\* C6: after stopProducing no callback invocation begins.
C6_StoppedNoDelivery == [][hist.stopped => qp'.output = qp.output]_vars

\* C7: an error from the callback does not stop draining: after one, the
\* producer is never left holding items with nothing scheduled to deliver
\* them, and every error is logged (by the producer, or by the caller the
\* exception reached).
C7_ErrorKeepsDraining ==
    hist.errors > 0 =>
        (~Stalled /\ qp.logged + qp.escaped = hist.errors)

\* C8: in a run in which pauseProducing is not called once the producer is
\* resumed, and in which the queue discards nothing, the callback receives
\* the items in the order in which they were put.
C8_PutOrder ==
    (~hist.repaused /\ ~hist.dropped) => Increasing(qp.output)

\* Every item was delivered, the last one handed over by its put, while an
\* earlier one had been queued before the producer was resumed.
C8_Witness ==
    /\ ~hist.repaused
    /\ ~hist.dropped
    /\ Len(qp.output) = MaxPuts
    /\ hist.direct
    /\ hist.resumeBase > 0

\* C9: put(x) on an idle producer calls the callback with x within the put
\* call, leaves the queue as it was (empty), and the waiter is no longer
\* armed.
C9_IdlePutDirect ==
    [][(Idle /\ hist'.nput # hist.nput) =>
          /\ qp'.output = Append(qp.output, hist'.nput)
          /\ qp'.pending = qp.pending
          /\ ~qp'.waiting]_vars

C9_Witness ==
    /\ hist.direct
    /\ qp.output # <<>>
    /\ qp.output[Len(qp.output)] = hist.nput
    /\ ~qp.waiting
    /\ qp.pending = <<>>

\* ------------------------------------------ properties of the sink sessions

\* The transport connection of the RabbitMQ protocol instance p exists:
\* connectionMade ran and connectionLost did not.
RabbitConnected(p) == p.conn # "lost"

\* C10 as stated: in every reachable state the consumer of a session is in
\* the dispatcher's consumer set if and only if the session's connection is
\* up.
C10_RegisteredIffConnected ==
    /\ \A n \in 1..Len(scribe) :
          <<"scribe", n>> \in consumers <=> scribe[n].connected
    /\ \A n \in 1..Len(rabbit) :
          <<"rabbit", n>> \in consumers <=> RabbitConnected(rabbit[n])

\* C10, amended: the consumer of a Scribe session is in the dispatcher's
\* consumer set if and only if the connection is up; the consumer of a
\* RabbitMQ session is in it if and only if the connection is up and
\* gotConnection has run to its end on it.  No consumer of an instance that
\* was never built is in the set.
C10_RegisteredIffEstablished ==
    /\ \A n \in 1..Len(scribe) :
          <<"scribe", n>> \in consumers <=> scribe[n].connected
    /\ \A n \in 1..Len(rabbit) :
          <<"rabbit", n>> \in consumers <=> rabbit[n].conn = "up"
    /\ \A c \in consumers :
          /\ c[1] = "scribe" => c[2] <= Len(scribe)
          /\ c[1] = "rabbit" => c[2] <= Len(rabbit)

\* The Scribe session is connected and the RabbitMQ session reconnected: the
\* consumer of the lost instance is gone and the consumers of the established
\* ones are registered.
C10_Witness ==
    /\ Len(scribe) = 1
    /\ scribe[1].connected
    /\ <<"scribe", 1>> \in consumers
    /\ Len(rabbit) = 2
    /\ rabbit[1].conn = "lost"
    /\ rabbit[1].producer # <<>>
    /\ <<"rabbit", 1>> \notin consumers
    /\ rabbit[2].conn = "up"
    /\ <<"rabbit", 2>> \in consumers

\* The items the producer q holds or has handed to its callback.
Held(q) == Range(q.pending) \cup q.inflight \cup Range(q.output)

\* C11: after connectionLost on an established RabbitMQ session the put of
\* its producer is not registered: a dispatch made afterwards leaves the
\* producer as it is (the event is neither queued in it nor passed to its
\* callback), and connectionLost has called the parent class exactly once.
C11_State ==
    \A n \in 1..Len(rabbit) :
        (rabbit[n].conn = "lost" /\ rabbit[n].producer # <<>>) =>
            /\ <<"rabbit", n>> \notin consumers
            /\ rabbit[n].upcalls = 1

C11_Step ==
    nevents' # nevents =>
        \A n \in 1..Len(rabbit) :
            rabbit[n].conn = "lost" => rabbit'[n] = rabbit[n]

C11_LostNotFed == []C11_State /\ [][C11_Step]_vars

\* An established session was lost, the next one was established, and the
\* event dispatched after that is held by the new producer only.
C11_Witness ==
    /\ Len(rabbit) >= 2
    /\ rabbit[1].conn = "lost"
    /\ rabbit[1].producer # <<>>
    /\ rabbit[2].producer # <<>>
    /\ nevents = 1
    /\ 1 \in Held(rabbit[2].producer[1])
    /\ 1 \notin Held(rabbit[1].producer[1])

\* The instance m is the first one after the instance n on which
\* gotConnection ran to its end.
NextEstablished(n, m) ==
    /\ n < m
    /\ rabbit[m].producer # <<>>
    /\ \A k \in (n + 1)..(m - 1) : rabbit[k].producer = <<>>

\* C12: the events queued in the producer of a RabbitMQ session when its
\* connection is lost are preserved across the reconnect: once the next
\* session is established, its producer holds them (queued, being published
\* or published).
C12_PendingPreserved ==
    \A n \in 1..Len(rabbit), m \in 1..Len(rabbit) :
        (/\ rabbit[n].conn = "lost"
         /\ rabbit[n].producer # <<>>
         /\ NextEstablished(n, m)) =>
            Range(rabbit[n].producer[1].pending)
                \subseteq Held(rabbit[m].producer[1])

\* ------------------------------------- properties of events with fields

\* An event has been dispatched.
Dispatched == evs.input # NoFields

\* C13: a dispatched event is immutable: every consumer, in whatever order the
\* dispatcher calls them, is called with the event having exactly the fields
\* it had when the dispatch began.
C13_EventImmutable ==
    Dispatched =>
        \A s \in evs.sinks :
            /\ evs.seen[s] = <<evs.input>>
            /\ evs.after[s] = <<evs.input>>

\* The event can be encoded as it is after RabbitMQPublisher.sendEvent's
\* changes (which touch no value that cannot be encoded).
Encodable(e) == dumps(e).exc = "none"

\* C14: RabbitMQPublisher.sendEvent publishes a body in which 'timestamp' is
\* a string and 'isError', if the event has it, is a boolean, and leaves the
\* event object it was given as it was: its 'timestamp' keeps its value.
C14_RabbitBody ==
    (Dispatched /\ "rabbitmq" \in evs.sinks) =>
        LET e == evs.seen["rabbitmq"][1]
            sent == evs.sent["rabbitmq"]
        IN  /\ evs.after["rabbitmq"] = <<e>>
            /\ e["timestamp"] = evs.input["timestamp"]
            /\ Encodable(e) <=> Len(sent) = 1
            /\ Len(sent) = 1 =>
                  /\ DOMAIN sent[1].body = DOMAIN e
                  /\ sent[1].body["timestamp"] = V("string", e["timestamp"].v)
                  /\ \A f \in DOMAIN e \ {"timestamp", "isError"} :
                        sent[1].body[f] = jsonValue(e[f])
                  /\ Has(e, "isError") =>
                        sent[1].body["isError"] =
                            V(IF e["isError"].v = "0" THEN "false" ELSE "true",
                              "")

\* An event with a numeric isError was published.
C14_Witness ==
    /\ Dispatched
    /\ "rabbitmq" \in evs.sinks
    /\ Has(evs.input, "isError")
    /\ evs.input["isError"] = V("int", "1")
    /\ Len(evs.sent["rabbitmq"]) = 1
    /\ evs.sent["rabbitmq"][1].body["isError"] = V("true", "")
    /\ evs.event["isError"] = V("int", "1")

\* The sink s tries to encode the event e and fails.
SerializeFails(s, e) ==
    CASE s = "redis" -> ~Encodable(e)
      [] s = "kafka" -> ~Encodable(e)
      [] s = "scribe" ->
            /\ ~lessThan(getLevelName(IF Has(e, "logLevel")
                                       THEN e["logLevel"].v ELSE "INFO"),
                          minLogLevel)
            /\ ~Encodable(DelItem(e, "category"))
      [] OTHER -> FALSE

\* C20: when the Redis, Scribe or Kafka sink cannot encode an event to JSON it
\* drops it: nothing is given to its backend, exactly one error is logged,
\* and every other registered sink is still called and does with the event it
\* is given what it does on its own.  This holds for every dispatch, whatever
\* was dispatched before.
C20_SerializeErrorDrops ==
    Dispatched =>
        \A s \in evs.sinks \cap {"redis", "scribe", "kafka"} :
            SerializeFails(s, evs.seen[s][1]) =>
                /\ evs.sent[s] = <<>>
                /\ evs.logged[s] = 1
                /\ evs.after[s] = evs.seen[s]
                /\ \A t \in evs.sinks \ {s} :
                      /\ Len(evs.seen[t]) = 1
                      /\ evs.sent[t] = sinkCalled(t, evs.seen[t][1]).sent

\* An event that cannot be encoded went to Redis, Scribe and Kafka.
C20_Witness ==
    /\ Dispatched
    /\ evs.sinks = {"redis", "scribe", "kafka"}
    /\ evs.input["message"].t = "object"
    /\ ~Has(evs.input, "logLevel")
    /\ \A s \in evs.sinks : evs.logged[s] = 1 /\ evs.sent[s] = <<>>

\* ------------------------------------------ properties of the Redis pool

\* The step is a call of lpush.
PushStep == pool'.calls # pool.calls

\* The factories of the pool p whose client is connected.
Up(p) == {f \in DOMAIN p.client : p.client[f] = "up"}

\* C15: lpush on an empty live set fails with NoClientError; a factory chosen
\* that has no client or whose push fails with "Not connected" is removed
\* from the live set (with a callback on its deferred) and the push is tried
\* on the remaining members: when the connected clients accept pushes, the
\* call succeeds if and only if some member of the live set is connected,
\* the value goes to one connected member, and the call fails with
\* NoClientError, the live set empty, if none is.
C15_Step ==
    PushStep =>
        LET m == pool.multi
            m2 == pool'.multi
            up == Up(m) \cap m.factories
            tried == pool'.tried
        IN  /\ m.factories = {} =>
                  pool'.result = "NoClientError" /\ tried = <<>>
            /\ m2.factories \subseteq m.factories
            /\ \A f \in m.factories \ m2.factories :
                  /\ m.client[f] # "up"
                  /\ m2.callbacks[f] = m.callbacks[f] + 1
                  /\ f \in Range(tried)
            /\ \A i \in 1..(Len(tried) - 1) : tried[i] \notin m2.factories
            /\ pool'.result = "NoClientError" =>
                  up = {} /\ m2.factories = {} /\ m2.pushes = m.pushes
            /\ pool'.result = "ok" =>
                  /\ Last(tried) \in up
                  /\ m2.pushes = [m.pushes EXCEPT ![Last(tried)] = @ + 1]
            /\ pool'.outcome = "ok" =>
                  /\ up # {} => pool'.result = "ok"
                  /\ up = {} => pool'.result = "NoClientError"

C15_LpushRetries == [][C15_Step]_vars

\* A push first chose a factory that is not connected, removed it and went to
\* a connected one.
C15_Witness ==
    /\ pool.result = "ok"
    /\ Len(pool.tried) = 2
    /\ pool.tried[1] \notin pool.multi.factories
    /\ pool.multi.callbacks[pool.tried[1]] = 1
    /\ pool.multi.pushes[pool.tried[2]] > 0

\* C16: a factory that was removed from the live set is put back when its
\* next connection is made (its deferred fires) and not before: a factory
\* outside the live set is not connected and has the callback waiting, it
\* enters the live set only in the step that connects it, and that step does
\* put it back.
C16_State ==
    \A f \in Factories :
        f \notin pool.multi.factories =>
            /\ pool.multi.client[f] # "up"
            /\ pool.multi.callbacks[f] > 0

C16_Step ==
    \A f \in Factories :
        f \notin pool.multi.factories =>
            (f \in pool'.multi.factories <=> pool'.multi.client[f] = "up")

C16_Reinserted == []C16_State /\ [][C16_Step]_vars

\* A factory that was put back received the last push.
C16_Witness ==
    /\ pool.result = "ok"
    /\ Last(pool.tried) \in pool.readded
    /\ pool.multi.pushes[Last(pool.tried)] > 0

\* C17: an endpoint that is not connected records no push; when some endpoint
\* is connected and the connected clients accept pushes, every lpush call is
\* recorded by exactly one endpoint, a connected one, so r calls add r to
\* what the endpoints recorded.
C17_Step ==
    LET m == pool.multi
        m2 == pool'.multi
    IN  /\ \A f \in Factories :
              (m.client[f] # "up" \/ ~PushStep) => m2.pushes[f] = m.pushes[f]
        /\ (PushStep /\ Up(m) # {} /\ pool'.outcome = "ok") =>
              \E f \in Up(m) :
                  m2.pushes = [m.pushes EXCEPT ![f] = @ + 1]

C17_OnePushPerCall == [][C17_Step]_vars

\* Every call so far was recorded by the same endpoint, the other one being
\* disconnected and out of the live set.
C17_Witness ==
    /\ pool.calls = MaxPushes
    /\ \E f, g \in Factories :
          /\ pool.multi.client[f] = "down"
          /\ f \notin pool.multi.factories
          /\ pool.multi.pushes[f] = 0
          /\ pool.multi.pushes[g] = MaxPushes

\* C18: a push that fails otherwise than with "Not connected" surfaces to the
\* caller: the factory chosen stays in the live set, nothing is recorded and
\* no other connected factory is tried.
C18_Step ==
    PushStep =>
        LET m == pool.multi
            m2 == pool'.multi
            tried == pool'.tried
        IN  /\ (pool'.outcome = "error" /\ Up(m) \cap m.factories # {}) =>
                  pool'.result = "RuntimeError"
            /\ pool'.result = "RuntimeError" =>
                  /\ pool'.outcome = "error"
                  /\ m.client[Last(tried)] = "up"
                  /\ Last(tried) \in m2.factories
                  /\ \A i \in 1..(Len(tried) - 1) : m.client[tried[i]] # "up"
                  /\ m2.pushes = m.pushes

C18_OtherErrorsSurface == [][C18_Step]_vars

\* A push failed on the first factory chosen while another connected factory
\* was in the live set.
C18_Witness ==
    /\ pool.result = "RuntimeError"
    /\ Len(pool.tried) = 1
    /\ Cardinality(Up(pool.multi) \cap pool.multi.factories) >= 2

\* C19: RedisPublisher.sendEvent swallows a NoClientError from the pool
\* without logging an error, logs every other push failure, and lets no
\* exception through to the dispatcher.
C19_SinkBoundary ==
    pool.calls > 0 =>
        /\ pool.result = "NoClientError" => pool.logged = 0
        /\ pool.result \in {"RuntimeError", "raised"} => pool.logged = 1
        /\ ~pool.escaped

\* ---------------------------------------- properties of the service sinks

\* C21: an event dispatched before startService or after stopService of a
\* service sink is not given to the sink's client, and an event dispatched
\* after startService has finished and before stopService is called is given
\* to it exactly once.
C21_Step ==
    nevents' # nevents =>
        \A s \in Services :
            /\ svc.life[s] = "started" =>
                  svc'.sent[s] = Append(svc.sent[s], nevents')
            /\ svc.life[s] \in {"new", "stopped"} =>
                  svc'.sent[s] = svc.sent[s]

C21_SentWhileStarted == [][C21_Step]_vars

\* C22: _sendEvent of KafkaPublisher is registered only while the producer
\* exists, and no dispatch has called it without a producer.
C22_RegisteredAfterProducer ==
    /\ "kafka" \in consumers => svc.producer # "none"
    /\ ~svc.noProducer

\* Of the events dispatched, KafkaPublisher handed only the last one to its
\* producer: the earlier ones were dispatched before the producer was made.
C22_Witness ==
    /\ nevents = MaxEvents
    /\ svc.sent["kafka"] = <<MaxEvents>>
    /\ svc.life["kafka"] = "started"

\* ------------------------------------ properties of the AsyncScribeClient

\* The Deferreds that were returned by Log and not fired.
Pending(c) == {d \in Waiters : c.waiter[d] = "pending"}

\* C23: every Deferred that Log returned and that is outstanding is stored
\* under one sequence id of its own; a reply with the sequence id s fires
\* the Deferred stored under s (a result with success: callback, an
\* exception or a result without success: errback), removes it from the
\* table and leaves every other Deferred as it was; no Deferred is fired more
\* than once.
C23_State ==
    LET c == sc.client
    IN  /\ sc.connected =>
              \A d \in Pending(c) :
                  Cardinality({s \in DOMAIN c.reqs : c.reqs[s] = d}) = 1
        /\ \A d \in Waiters : c.fired[d] <= 1

C23_Step ==
    (sc'.nreplies # sc.nreplies /\ sc'.rseqid \in DOMAIN sc.client.reqs) =>
        LET c == sc.client
            c2 == sc'.client
            d == c.reqs[sc'.rseqid]
        IN  /\ c.waiter[d] = "pending"
            /\ c2.waiter[d] = IF sc'.kind = "success"
                              THEN "callback" ELSE "errback"
            /\ c2.fired[d] = 1
            /\ DOMAIN c2.reqs = DOMAIN c.reqs \ {sc'.rseqid}
            /\ \A s \in DOMAIN c2.reqs : c2.reqs[s] = c.reqs[s]
            /\ \A x \in Waiters \ {d} :
                  c2.waiter[x] = c.waiter[x] /\ c2.fired[x] = c.fired[x]

C23_RepliesMatched == []C23_State /\ [][C23_Step]_vars

\* Of three requests the second was answered, the others are outstanding.
C23_Witness ==
    /\ sc.connected
    /\ sc.nlogs = 3
    /\ sc.client.waiter[2] \in {"callback", "errback"}
    /\ Pending(sc.client) = {1, 3}

\* C24: when the connection is lost, every request that is in the table is
\* failed with the failure of the closed connection: no Deferred that Log
\* returned is pending afterwards.
C24_State ==
    ~sc.connected =>
        /\ Pending(sc.client) = {}
        /\ \A s \in DOMAIN sc.client.reqs :
              sc.client.waiter[sc.client.reqs[s]] = "lost"

C24_Step ==
    (sc.connected /\ ~sc'.connected) =>
        \A d \in Waiters :
            sc'.client.waiter[d] = IF d \in Pending(sc.client)
                                   THEN "lost" ELSE sc.client.waiter[d]

C24_LossFailsAll == []C24_State /\ [][C24_Step]_vars

\* The connection was lost with two requests outstanding and one answered.
C24_Witness ==
    /\ ~sc.connected
    /\ Cardinality({d \in Waiters : sc.client.waiter[d] = "lost"}) = 2
    /\ \E d \in Waiters : sc.client.waiter[d] = "callback"

\* -------------------------------------- properties of the log level filter

\* The place of a level name in the order of the levels.
Rank(name) == CHOOSE i \in 1..Len(LevelNames) : LevelNames[i] = name

\* The name of the level whose number in the logging module is min.
MinName(min) ==
    CASE min = 10 -> "DEBUG"
      [] min = 20 -> "INFO"
      [] min = 30 -> "WARNING"
      [] min = 40 -> "ERROR"
      [] min = 50 -> "CRITICAL"

\* C25: ScribeProtocol.sendEvent drops an event exactly when its logLevel
\* (INFO when absent) is below the configured minimum in the order DEBUG <
\* INFO < NOTICE < WARNING < ERROR < CRITICAL < ALERT < EMERGENCY, and gives
\* it to Scribe otherwise.
C25_LevelFilter ==
    lv.event # NoFields =>
        LET level == IF Has(lv.event, "logLevel")
                     THEN lv.event["logLevel"].v ELSE "INFO"
        IN  (lv.sent = <<>>) <=> (Rank(level) < Rank(MinName(lv.minLogLevel)))

\* --------------------------------------- properties of the native ingress

\* The datagram d is a category without a colon, a colon, and one JSON
\* object with white space around it or none; i is the place of the colon.
WellFormedAt(d, i) ==
    /\ i \in 1..Len(d)
    /\ d[i] = ":"
    /\ \A k \in 1..(i - 1) : d[k] # ":"
    /\ \E k \in (i + 1)..Len(d) :
          /\ d[k] \in DOMAIN JsonTexts
          /\ JsonTexts[d[k]].kind = "object"
          /\ \A m \in ((i + 1)..Len(d)) \ {k} : d[m] \in Whitespace

WellFormed(d) == \E i \in 1..Len(d) : WellFormedAt(d, i)

\* C26: for a well-formed datagram datagramReceived calls eventReceived
\* exactly once, with an event whose category is the text left of the first
\* colon and whose other fields are those of the JSON object.
C26_Step ==
    (dg'.n # dg.n /\ WellFormed(dg'.datagram)) =>
        /\ Len(dg'.events) = 1
        /\ dg'.nevents = dg.nevents + 1
        /\ \E i \in 1..Len(dg'.datagram), k \in 1..Len(dg'.datagram) :
              /\ WellFormedAt(dg'.datagram, i)
              /\ k > i
              /\ dg'.datagram[k] \in DOMAIN JsonTexts
              /\ LET e == dg'.events[1]
                     o == JsonTexts[dg'.datagram[k]].fields
                 IN  /\ DOMAIN e = DOMAIN o \cup {"category"}
                     /\ e["category"] =
                            V("str", Join(SubSeq(dg'.datagram, 1, i - 1)))
                     /\ \A f \in DOMAIN o \ {"category"} : e[f] = o[f]

C26_WellFormedDispatched == [][C26_Step]_vars

\* A datagram with a category of two letters, a tab, an object with two
\* fields and trailing white space was dispatched.
C26_Witness ==
    /\ dg.datagram = <<"a", "b", ":", "\t",
                       "{\"message\": \"test\", \"timestamp\": 1340634165}",
                       " ", "\n">>
    /\ Len(dg.events) = 1
    /\ dg.events[1]["category"] = V("str", "ab")

\* C27: a datagram without a colon, with a payload that is no JSON, or with
\* a JSON value that is no object is logged and dropped: eventReceived is
\* not called, no exception leaves datagramReceived, and (C26 holding in
\* every step) well-formed datagrams received afterwards are dispatched.
C27_Step ==
    (dg'.n # dg.n /\ ~WellFormed(dg'.datagram)) =>
        /\ dg'.events = <<>>
        /\ dg'.nevents = dg.nevents
        /\ dg'.logged = dg.logged + 1
        /\ ~dg'.exc

C27_MalformedDropped == [][C27_Step]_vars

\* A malformed datagram was logged and the well-formed one after it was
\* dispatched.
C27_Witness ==
    /\ dg.n = 2
    /\ dg.logged = 1
    /\ dg.nevents = 1
    /\ Len(dg.events) = 1
    /\ WellFormed(dg.datagram)

\* C28: every event the ingress hands to the dispatcher has a 'timestamp'
\* field.
C28_TimestampSet ==
    \A i \in 1..Len(dg.events) : Has(dg.events[i], "timestamp")

\* ------------------------------------ properties of register / unregister

\* C29: register and unregister have set semantics: after any sequence of
\* calls a consumer is registered, and receives a dispatched event, exactly
\* once, if and only if the last call made for it was register; registering
\* a registered consumer and unregistering one that is not registered change
\* nothing and raise nothing.
C29_State ==
    /\ consumers = {c \in TestConsumers : lastCall[c].op = "register"}
    /\ ~draised
    /\ dlogged = 0

C29_Step ==
    /\ nevents' # nevents =>
          \A c \in TestConsumers :
              received'[c] = IF lastCall[c].op = "register"
                             THEN Append(received[c], nevents')
                             ELSE received[c]
    /\ \A c \in TestConsumers :
          (lastCall'[c] # lastCall[c]
              /\ lastCall'[c].known = (lastCall'[c].op = "register")) =>
                 consumers' = consumers

C29_SetSemantics == []C29_State /\ [][C29_Step]_vars

\* An event was dispatched after one consumer was registered while it was
\* registered and another unregistered while it was not: the first received
\* it once, the other did not.
C29_Witness ==
    /\ nevents > 0
    /\ \E c, d \in RegConsumers :
          /\ lastCall[c] = [op |-> "register", known |-> TRUE]
          /\ lastCall[d] = [op |-> "unregister", known |-> FALSE]
          /\ received[c] # <<>>
          /\ Last(received[c]) = nevents
          /\ \A i \in 1..Len(received[d]) : received[d][i] # nevents

\* ------------------------------------- properties of the client factory

\* C30: whenever a connection is established the reconnect delay is reset to
\* its initial value, and across connection losses and failed attempts the
\* delay grows but never exceeds maxDelay.
C30_State == rcf.delay <= maxDelay * 1000

C30_Step ==
    /\ rcf'.built # rcf.built => rcf'.delay = initialDelay * 1000
    /\ rcf'.retries > rcf.retries => rcf'.delay >= rcf.delay

C30_DelayCapped == []C30_State /\ [][C30_Step]_vars

\* ------------------------------------------- properties of the UDPLogger

\* The first send of the last call failed.
SendFailed ==
    /\ Len(ul.logger.attempts) >= 1
    /\ ul.logger.sent # <<ul.logger.attempts[1]>>

\* C31: when the send of the serialized event fails, exactly one further
\* send is attempted, of a meta-event in category 'udplog' with logLevel
\* WARNING and original_size the length of the datagram that failed; when
\* that send fails too, one text is written to standard error; log does
\* not raise because of a failed send, and at most one datagram leaves per
\* call.
C31_SendFailure ==
    /\ Len(ul.logger.sent) <= 1
    /\ SendFailed =>
          /\ ul.logger.raised = ""
          /\ Len(ul.logger.attempts) = 2
          /\ ul.logger.attempts[2].category = Category("udplog", 1)
          /\ ul.logger.attempts[2].event.logLevel = "WARNING"
          /\ ul.logger.attempts[2].event.original_size
                = ul.logger.attempts[1].size
          /\ ul.logger.stderr = IF ul.logger.sent = <<>> THEN 1 ELSE 0
    /\ ~SendFailed => ul.logger.stderr = 0

\* -------------------------------------- properties of the syslog ingress

\* The index of name in list, counted from 0.
IndexOf(list, name) == CHOOSE i \in 0..(Len(list) - 1) : list[i + 1] = name

\* C32: for a priority from 0 to 191 the facility and the severity are those
\* whose indexes in FACILITIES and SEVERITIES are the quotient and the
\* remainder of the priority by 8 (13 gives user and notice, 191 local7 and
\* debug); for a priority above 191 parsePriority raises IndexError and the
\* event has neither 'facility' nor 'severity'.
C32_PriorityDecoded ==
    (sy.received /\ sy.line.match) =>
        /\ sy.line.priority <= 191 =>
              /\ Has(sy.parsed, "facility") /\ Has(sy.parsed, "severity")
              /\ sy.parsed["facility"].v \in {FACILITIES[i] : i \in 1..24}
              /\ sy.parsed["severity"].v \in {SEVERITIES[i] : i \in 1..8}
              /\ IndexOf(FACILITIES, sy.parsed["facility"].v) * 8
                    + IndexOf(SEVERITIES, sy.parsed["severity"].v)
                    = sy.line.priority
              /\ parsePriority(sy.line.priority).exc = "none"
        /\ sy.line.priority = 13 =>
              /\ sy.parsed["facility"].v = "user"
              /\ sy.parsed["severity"].v = "notice"
        /\ sy.line.priority = 191 =>
              /\ sy.parsed["facility"].v = "local7"
              /\ sy.parsed["severity"].v = "debug"
        /\ sy.line.priority > 191 =>
              /\ parsePriority(sy.line.priority).exc = "IndexError"
              /\ ~Has(sy.parsed, "facility")
              /\ ~Has(sy.parsed, "severity")

C32_Witness ==
    /\ sy.received
    /\ sy.line.match
    /\ sy.line.priority = 192
    /\ ~Has(sy.parsed, "facility")
    /\ Has(sy.parsed, "hostname")

\* The log level the spec gives for a syslog severity.
LevelOf(severity) ==
    CASE severity = "emerg" -> "EMERGENCY"
      [] severity = "alert" -> "ALERT"
      [] severity = "crit" -> "CRITICAL"
      [] severity = "err" -> "ERROR"
      [] severity = "warn" -> "WARNING"
      [] severity = "notice" -> "NOTICE"
      [] severity = "info" -> "INFO"
      [] severity = "debug" -> "DEBUG"
      [] OTHER -> ""

\* The field f is in both events with one value, or in neither.
Same(former, result, f) ==
    /\ Has(former, f) <=> Has(result, f)
    /\ Has(former, f) => result[f] = former[f]

\* What syslogToUDPLogEvent makes of the fields it renames and fills in:
\* result is what it returned for former.
Renamed(former, result, hostnames) ==
    /\ ~Has(result, "tag")
    /\ ~Has(result, "severity")
    /\ IF Has(former, "tag")
       THEN Has(result, "appname") /\ result["appname"] = former["tag"]
       ELSE Same(former, result, "appname")
    /\ IF Has(former, "severity")
       THEN /\ Has(result, "logLevel")
            /\ result["logLevel"].v = LevelOf(former["severity"].v)
       ELSE Same(former, result, "logLevel")
    /\ Has(result, "category")
    /\ result["category"] = IF Has(former, "category") THEN former["category"]
                            ELSE V("unicode", "syslog")
    /\ IF Has(former, "hostname") /\ former["hostname"].v \in DOMAIN hostnames
       THEN /\ Has(result, "hostname")
            /\ result["hostname"].v = hostnames[former["hostname"].v]
       ELSE Same(former, result, "hostname")

\* The fields syslogToUDPLogEvent renames or fills in.
RenamedFields ==
    {"tag", "severity", "appname", "logLevel", "category", "hostname"}

\* C33 as stated: the result of syslogToUDPLogEvent has no 'tag' and no
\* 'severity'; 'appname' is the former tag, 'logLevel' the level of the
\* former severity, 'category' is 'syslog' unless it was set, 'hostname' is
\* replaced iff it is in the map of host names; every other field is
\* unchanged.
C33_OthersUnchanged ==
    (sy.received /\ sy.out # <<>>) =>
        /\ Renamed(sy.parsed, sy.out[1], sy.hostnames)
        /\ \A f \in (DOMAIN sy.parsed \cup DOMAIN sy.out[1]) \ RenamedFields :
              Same(sy.parsed, sy.out[1], f)

\* C33, amended: as above, but 'timestamp', when the event has one, is
\* replaced by the seconds since the epoch of that time; every field other
\* than these is unchanged.
C33_Normalized ==
    (sy.received /\ sy.out # <<>>) =>
        /\ Renamed(sy.parsed, sy.out[1], sy.hostnames)
        /\ Has(sy.parsed, "timestamp") <=> Has(sy.out[1], "timestamp")
        /\ Has(sy.parsed, "timestamp") =>
              /\ sy.parsed["timestamp"].t = "datetime"
              /\ sy.out[1]["timestamp"]
                    = V("int", Timestamps[sy.parsed["timestamp"].v])
        /\ \A f \in (DOMAIN sy.parsed \cup DOMAIN sy.out[1])
                        \ (RenamedFields \cup {"timestamp"}) :
              Same(sy.parsed, sy.out[1], f)

C33_Witness ==
    /\ sy.received
    /\ sy.out # <<>>
    /\ Has(sy.parsed, "tag")
    /\ Has(sy.parsed, "severity")
    /\ Has(sy.parsed, "timestamp")
    /\ Has(sy.parsed, "pid")
    /\ sy.out[1]["hostname"] = V("unicode", "myhost.example.org")
    /\ sy.out[1]["logLevel"] = V("unicode", "NOTICE")

\* --------------------------------- conservation in the QueueProducer

\* C34: every item the callback was called with was put before, and no item
\* is handed to the callback twice; a producer without a size that was not
\* stopped discards nothing: every item put is in the queue or was handed
\* to the callback.
C34_Conservation ==
    /\ Range(qp.output) \subseteq 1..hist.nput
    /\ Cardinality(Range(qp.output)) = Len(qp.output)
    /\ Range(qp.output) \cap Range(qp.pending) = {}
    /\ (qp.maxlen = <<>> /\ ~hist.stopped) =>
          /\ Range(qp.pending) \cup Range(qp.output) = 1..hist.nput
          /\ Len(qp.pending) + Len(qp.output) = hist.nput

C34_Witness ==
    /\ qp.maxlen = <<>>
    /\ ~hist.stopped
    /\ hist.repaused
    /\ hist.nput = MaxPuts
    /\ Len(qp.output) >= 2
    /\ qp.pending # <<>>
    /\ qp.inflight # {}

\* --------------- properties of consumers that change the consumer set

\* C35: when a consumer registers or unregisters a consumer while
\* eventReceived iterates over the consumer set, the dispatch still ends
\* without raising, and every consumer that was registered when it began
\* and was not unregistered was called exactly once.
C35_ReentrantDispatch ==
    it.n > 0 =>
        /\ ~it.raised
        /\ \A c \in it.began \ it.removed : it.calls[c] = 1

\* ------------------------------- connection loss of a RabbitMQ session

\* C36: whenever connectionLost of a RabbitMQPublisher has run, also before
\* gotConnection has finished, it did not raise, no consumer of the session
\* is in the dispatcher, and the connectionLost of the parent class was
\* called.
C36_LostCleanly ==
    \A n \in 1..Len(rabbit) :
        rabbit[n].conn = "lost" =>
            /\ ~rabbit[n].raisedLost
            /\ <<"rabbit", n>> \notin consumers
            /\ rabbit[n].upcalls = 1

\* ---------------------------- KafkaPublisher stopped while it is starting

\* stopService of KafkaPublisher was called while startService waited for
\* the producer.
StoppedWhileStarting ==
    svc.life["kafka"] = "stopped" /\ svc.producer # "stopped"

C37_Step ==
    (StoppedWhileStarting /\ nevents' # nevents) =>
        svc'.sent["kafka"] = svc.sent["kafka"]

\* C37: when stopService of KafkaPublisher is called while startService is
\* waiting for the producer, stopService does not raise, _sendEvent is not
\* registered afterwards, and no event dispatched after it reaches the
\* producer.
C37_StopWhileStarting ==
    /\ [](StoppedWhileStarting =>
            /\ svc.raised = 0
            /\ "kafka" \notin consumers)
    /\ [][C37_Step]_vars

\* ------------------------------------------ properties of pushes in flight

\* C38: when the pushes of two or more calls of lpush are in flight on one
\* factory and all fail with "Not connected", the factory is taken out of
\* the live set, and each call is tried again on the factories left or
\* fails with NoClientError; none fails with another error.
C38_AllRetried ==
    \A k \in PushCalls :
        fl.calls[k].handled # 0 /\ fl.calls[k].shared =>
            /\ fl.calls[k].handled \notin fl.multi.factories
            /\ fl.calls[k].state = "pending"
                  \/ fl.calls[k].result = "NoClientError"

Unexpected == sc'.nreplies # sc.nreplies /\ sc'.rseqid \notin DOMAIN sc.client.reqs

\* The unexpected reply is logged, and no Deferred is fired or taken out of
\* the table.
C40_Ignored ==
    Unexpected =>
        /\ sc'.client.logged = sc.client.logged + 1
        /\ sc'.client.reqs = sc.client.reqs
        /\ sc'.client.waiter = sc.client.waiter
        /\ sc'.client.fired = sc.client.fired

\* C40: recv_Log for a reply whose sequence id matches no outstanding
\* request logs it as unexpected and does not raise; no outstanding Deferred
\* is fired or removed from the table.
C40_UnexpectedIgnored ==
    [][Unexpected => C40_Ignored /\ sc'.client.raised = sc.client.raised]_vars

C40_LoggedOnly == [][C40_Ignored]_vars

====
